---- MODULE Spec2Model ----
(***************************************************************************)
(* Model of mikeio.DataArray (src/mikeio/dataarray.py): construction and   *)
(* validation (__init__ and its _parse_* helpers), positional selection    *)
(* (isel), squeeze, aggregation, scalar quantile, arithmetic and the       *)
(* comparison operators.                                                   *)
(*                                                                         *)
(* A numpy buffer is modelled by its axes: a sequence with one entry per   *)
(* axis, each entry the sequence of ORIGINAL positions the current rows    *)
(* came from.  shape is the sequence of the lengths, ndim the number of    *)
(* axes; np.take along an axis selects in that entry.  The elevation       *)
(* array zn is a buffer of the same kind.  time is a sequence of distinct  *)
(* integer time stamps.  Python indices are 0-based, TLA+ sequences        *)
(* 1-based: position i of Python is position i+1 here.                     *)
(***************************************************************************)
EXTENDS Integers, Sequences, FiniteSets, TLC

VARIABLES da, res

vars == <<da, res>>

-----------------------------------------------------------------------------
(* Bounds of the model *)

MaxN == 2
MaxT == 2
MaxRank == 3
MaxIdxLen == 2
MeshCols == 2

-----------------------------------------------------------------------------
(* Small helpers on sequences and buffers *)

Range(s) == {s[i] : i \in 1..Len(s)}

Iota(n) == [i \in 1..n |-> i - 1]

Shape(ix) == [i \in 1..Len(ix) |-> Len(ix[i])]

\* a fresh buffer of the given shape: row i of every axis is original row i
Buffer(shape) == [i \in 1..Len(shape) |-> Iota(shape[i])]

RemoveAt(s, k) == [i \in 1..(Len(s) - 1) |-> IF i < k THEN s[i] ELSE s[i + 1]]

InSeq(x, s) == \E i \in 1..Len(s) : s[i] = x

\* s[idx] for a list of 0-based positions (numpy / pandas fancy indexing)
Pick(s, idx) == [k \in 1..Len(idx) |-> s[idx[k] + 1]]

\* np.take(values, int(i), axis): the axis is dropped
TakeScalar(ix, axis, i) == RemoveAt(ix, axis + 1)

\* np.take(values, idx, axis): the axis keeps the selected positions
TakeList(ix, axis, idx) == [ix EXCEPT ![axis + 1] = Pick(ix[axis + 1], idx)]

-----------------------------------------------------------------------------
(* Geometries (external collaborators, seen through their narrow interface) *)

GeometryUndefined == [kind |-> "Undefined", ny |-> 0, nx |-> 0, elems |-> <<>>]

Grid1D(nx) == [kind |-> "Grid1D", ny |-> 0, nx |-> nx, elems |-> <<>>]

Grid2D(ny, nx) == [kind |-> "Grid2D", ny |-> ny, nx |-> nx, elems |-> <<>>]

Grid3D == [kind |-> "Grid3D", ny |-> 0, nx |-> 0, elems |-> <<>>]

GeometryPoint == [kind |-> "Point", ny |-> 0, nx |-> 0, elems |-> <<>>]

GeometryFMPointSpectrum == [kind |-> "PointSpectrum", ny |-> 0, nx |-> 0, elems |-> <<>>]

\* spectral flexible mesh of type DfsuSpectral2D holding the listed elements
GeometryFMAreaSpectrum(elems) == [kind |-> "AreaSpectrum", ny |-> 0, nx |-> 0, elems |-> elems]

\* spectral flexible mesh of type DfsuSpectral1D with n nodes
GeometryFMLineSpectrum(n) == [kind |-> "LineSpectrum", ny |-> 0, nx |-> n, elems |-> <<>>]

\* isinstance(geometry, GeometryFM) and geometry.is_spectral
IsSpectralFM(g) == g.kind \in {"AreaSpectrum", "LineSpectrum"}

\* flat (2D) flexible mesh holding the listed elements
GeometryFM(elems) == [kind |-> "FM", ny |-> 0, nx |-> 0, elems |-> elems]

\* layered (3D) flexible mesh holding the listed elements
GeometryFMLayered(elems) == [kind |-> "FMLayered", ny |-> 0, nx |-> 0, elems |-> elems]

\* isinstance(geometry, GeometryFM): the layered mesh is a subclass
IsFM(g) == g.kind \in {"FM", "FMLayered"}

IsLayered(g) == g.kind = "FMLayered"

\* the number of layers of the layered mesh of the model
MeshLayers == 2

\* The layered mesh of the model: MeshCols columns of MeshLayers elements,
\* numbered column by column from the bottom; element e lies in column
\* e \div MeshLayers and layer e % MeshLayers.  Nodes sit on the
\* MeshLayers + 1 levels of the MeshCols + 1 verticals; an element has the
\* four nodes at its corners.
MeshElements == Iota(MeshCols * MeshLayers)

LayerOf(e) == e % MeshLayers

NodeId(col, level) == col * (MeshLayers + 1) + level

ElementNodes(e) ==
    LET c == e \div MeshLayers
        l == e % MeshLayers
    IN {NodeId(c, l), NodeId(c, l + 1), NodeId(c + 1, l), NodeId(c + 1, l + 1)}

NodesOfElements(elems) == UNION {ElementNodes(e) : e \in Range(elems)}

RECURSIVE SortedSeq(_)
SortedSeq(S) ==
    IF S = {} THEN <<>>
    ELSE LET m == CHOOSE x \in S : \A y \in S : x <= y
         IN <<m>> \o SortedSeq(S \ {m})

\* node ids of a layered geometry, in the order of the columns of zn
GeometryNodes(g) == SortedSeq(NodesOfElements(g.elems))

n_elements(g) == Len(g.elems)

n_nodes(g) == Cardinality(NodesOfElements(g.elems))

-----------------------------------------------------------------------------
(* Outcomes of a call *)

\* an item: the words of its name, its EUM type and unit, and which object
\* it is: the one held by the array in hand, or one made by the call
ItemObject(name, type, unit, id) == [name |-> name, type |-> type, unit |-> unit, id |-> id]

NoItem == ItemObject(<<>>, "", "", "held")

\* ItemInfo(name), also with itemtype=EUMType.Undefined: a new object
ItemInfo(name) == ItemObject(name, "Undefined", "undefined", "new")

\* deepcopy(item): a new object with the same content
deepcopy(item) == [item EXCEPT !.id = "new"]

NoArray == [ix |-> <<>>, dtype |-> "none", time |-> <<>>, item |-> NoItem, dims |-> <<>>,
            geometry |-> GeometryUndefined, zn |-> [some |-> FALSE, ix |-> <<>>]]

NoneZn == [some |-> FALSE, ix |-> <<>>]

SomeZn(ix) == [some |-> TRUE, ix |-> ix]

NoDims == [some |-> FALSE, v |-> <<>>]

SomeDims(d) == [some |-> TRUE, v |-> d]

Ok(a) == [status |-> "ok", exc |-> "", msg |-> "", arr |-> a]

Raise(exc, msg) == [status |-> "raise", exc |-> exc, msg |-> msg, arr |-> NoArray]

ReturnsNone == [status |-> "none", exc |-> "", msg |-> "", arr |-> NoArray]

-----------------------------------------------------------------------------
(* Construction and validation: DataArray.__init__ and its helpers *)

Val(v) == [status |-> "ok", exc |-> "", msg |-> "", v |-> v]

Err(exc, msg) == [status |-> "raise", exc |-> exc, msg |-> msg, v |-> <<>>]

\* Op applied to the value of e: e is evaluated once, as a Python local is
Bind(e, Op(_)) == CHOOSE r \in {Op(x) : x \in {e}} : TRUE

\* the names of the spectral axes appended with the frequency first
guess_space_dims_frequency_first(ndim_no_time, geometry) ==
    IF geometry.kind = "PointSpectrum" THEN
        (IF ndim_no_time = 1 THEN <<"frequency">> ELSE <<>>)
        \o (IF ndim_no_time = 2 THEN <<"frequency", "direction">> ELSE <<>>)
    ELSE IF IsSpectralFM(geometry) THEN
        (IF ndim_no_time > 0
         THEN <<IF geometry.kind = "LineSpectrum" THEN "node" ELSE "element">> ELSE <<>>)
        \o (IF ndim_no_time = 2 THEN <<"frequency">>
            ELSE IF ndim_no_time = 3 THEN <<"frequency", "direction">> ELSE <<>>)
    ELSE <<"x">>

\* the canonical trailing axis names _guess_dims appends for a geometry
guess_space_dims(ndim_no_time, geometry) ==
    IF geometry.kind = "PointSpectrum" THEN
        (IF ndim_no_time = 1 THEN <<"frequency">> ELSE <<>>)
        \o (IF ndim_no_time = 2 THEN <<"direction", "frequency">> ELSE <<>>)
    ELSE IF IsSpectralFM(geometry) THEN
        (IF ndim_no_time > 0
         THEN <<IF geometry.kind = "LineSpectrum" THEN "node" ELSE "element">> ELSE <<>>)
        \o (IF ndim_no_time = 2 THEN <<"frequency">>
            ELSE IF ndim_no_time = 3 THEN <<"direction", "frequency">> ELSE <<>>)
    ELSE IF IsFM(geometry) THEN
        (IF ndim_no_time > 0 THEN <<"element">> ELSE <<>>)
    ELSE IF geometry.kind = "Grid1D" THEN <<"x">>
    ELSE IF geometry.kind = "Grid2D" THEN <<"y", "x">>
    ELSE (IF ndim_no_time > 2 THEN <<"z">> ELSE <<>>)
         \o (IF ndim_no_time > 1 THEN <<"y">> ELSE <<>>)
         \o (IF ndim_no_time > 0 THEN <<"x">> ELSE <<>>)

\* _guess_dims: shape[0] is read only when n_timesteps > 1 is false, and
\* fails with IndexError on a 0-dimensional buffer
guess_dims(ndim, shape, n_timesteps, geometry) ==
    IF ~(n_timesteps > 1) /\ ndim = 0
    THEN Err("IndexError", "tuple index out of range")
    ELSE LET time_is_first == (n_timesteps > 1) \/ (shape[1] = 1 /\ n_timesteps = 1)
             dims == IF time_is_first THEN <<"time">> ELSE <<>>
             ndim_no_time == IF Len(dims) = 0 THEN ndim ELSE ndim - 1
         IN Val(dims \o guess_space_dims(ndim_no_time, geometry))

\* parse_dims without the check that several time steps need a "time" dim
parse_dims_steps_unchecked(dims, geometry, shape, n_timesteps) ==
    IF ~dims.some THEN guess_dims(Len(shape), shape, n_timesteps, geometry)
    ELSE IF Len(shape) # Len(dims.v)
         THEN Err("ValueError", "Number of named dimensions does not equal data ndim")
    ELSE IF InSeq("time", dims.v) /\ dims.v[1] # "time"
         THEN Err("ValueError", "time must be first dimension if present!")
    ELSE Val(dims.v)

\* _parse_dims: dims left out are guessed, dims given are validated
parse_dims(dims, geometry, shape, n_timesteps) ==
    IF ~dims.some THEN guess_dims(Len(shape), shape, n_timesteps, geometry)
    ELSE IF Len(shape) # Len(dims.v)
         THEN Err("ValueError", "Number of named dimensions does not equal data ndim")
    ELSE IF InSeq("time", dims.v) /\ dims.v[1] # "time"
         THEN Err("ValueError", "time must be first dimension if present!")
    ELSE IF n_timesteps > 1 /\ ~InSeq("time", dims.v)
         THEN Err("ValueError", "time missing from named dimensions")
    ELSE Val(dims.v)

\* _check_time_data_length: shape[0] of a 0-dimensional buffer is an IndexError
check_time_data_length(dims, time, shape) ==
    IF ~InSeq("time", dims) THEN Val(dims)
    ELSE IF Len(shape) = 0 THEN Err("IndexError", "tuple index out of range")
    ELSE IF Len(time) # shape[1]
         THEN Err("ValueError", "Number of timesteps does not fit with data shape")
    ELSE Val(dims)

\* shape[axis] == n inside an assert: IndexError when the buffer has no such
\* axis, AssertionError when the sizes differ (axis is 0-based)
assert_axis_size(shape, axis, n, msg) ==
    IF axis + 1 > Len(shape) THEN Err("IndexError", "tuple index out of range")
    ELSE IF shape[axis + 1] # n THEN Err("AssertionError", msg)
    ELSE Val(<<>>)

\* parse_geometry with its assert statements compiled away
parse_geometry_no_asserts(geometry, dims, shape) == Val(geometry)

\* _parse_geometry: nothing is compared when dims is ("time",), for a point
\* spectrum, or for a geometry without a size (Grid3D, undefined)
parse_geometry(geometry, dims, shape) ==
    LET axis == IF InSeq("time", dims) THEN 1 ELSE 0
    IN IF Len(dims) = 1 /\ dims[1] = "time" THEN Val(geometry)
       ELSE IF geometry.kind = "PointSpectrum" THEN Val(geometry)
       ELSE IF IsSpectralFM(geometry) THEN
           LET c == IF geometry.kind = "LineSpectrum"
                    THEN assert_axis_size(shape, axis, geometry.nx,
                                          "data shape does not match number of nodes")
                    ELSE assert_axis_size(shape, axis, n_elements(geometry),
                                          "data shape does not match number of elements")
           IN IF c.status = "ok" THEN Val(geometry) ELSE c
       ELSE IF IsFM(geometry) THEN
           LET c == assert_axis_size(shape, axis, n_elements(geometry),
                                     "data shape does not match number of elements")
           IN IF c.status = "ok" THEN Val(geometry) ELSE c
       ELSE IF geometry.kind = "Grid1D" THEN
           LET c == assert_axis_size(shape, axis, geometry.nx,
                                     "data shape does not match number of grid points")
           IN IF c.status = "ok" THEN Val(geometry) ELSE c
       ELSE IF geometry.kind = "Grid2D" THEN
           LET cy == assert_axis_size(shape, axis, geometry.ny,
                                      "data shape does not match ny")
               cx == assert_axis_size(shape, axis + 1, geometry.nx,
                                      "data shape does not match nx")
           IN IF cy.status # "ok" THEN cy
              ELSE IF cx.status # "ok" THEN cx
              ELSE Val(geometry)
       ELSE Val(geometry)

\* parse_zn without the comparison of the last axis with n_nodes
parse_zn_nodes_unchecked(zn, geometry, n_timesteps) ==
    IF ~zn.some THEN Val(zn)
    ELSE IF ~IsLayered(geometry)
         THEN Err("ValueError", "zn can only be provided for layered dfsu data")
    ELSE IF n_timesteps > 1 /\ Len(zn.ix) = 0
         THEN Err("IndexError", "tuple index out of range")
    ELSE IF n_timesteps > 1 /\ Len(zn.ix[1]) # n_timesteps
         THEN Err("ValueError", "zn has wrong shape: first dimension")
    ELSE Val(zn)

\* _parse_zn: zn.shape[0] and zn.shape[-1] of a 0-dimensional zn are IndexErrors
parse_zn(zn, geometry, n_timesteps) ==
    IF ~zn.some THEN Val(zn)
    ELSE IF ~IsLayered(geometry)
         THEN Err("ValueError", "zn can only be provided for layered dfsu data")
    ELSE LET zshape == Shape(zn.ix)
         IN IF n_timesteps > 1 /\ Len(zshape) = 0
            THEN Err("IndexError", "tuple index out of range")
            ELSE IF n_timesteps > 1 /\ zshape[1] # n_timesteps
            THEN Err("ValueError", "zn has wrong shape: first dimension")
            ELSE IF Len(zshape) = 0
            THEN Err("IndexError", "tuple index out of range")
            ELSE IF zshape[Len(zshape)] # n_nodes(geometry)
            THEN Err("ValueError", "zn has wrong shape: last dimension")
            ELSE Val(zn)

\* DataArray.__init__: the validations in the order the code runs them; the
\* first one that raises decides the outcome and no array is returned
DataArray(data, dtype, time, item, geometry, zn, dims) ==
    Bind(parse_dims(dims, geometry, Shape(data), Len(time)), LAMBDA d1 :
      IF d1.status # "ok" THEN Raise(d1.exc, d1.msg)
      ELSE Bind(check_time_data_length(d1.v, time, Shape(data)), LAMBDA d2 :
        IF d2.status # "ok" THEN Raise(d2.exc, d2.msg)
        ELSE Bind(parse_geometry(geometry, d1.v, Shape(data)), LAMBDA g :
          IF g.status # "ok" THEN Raise(g.exc, g.msg)
          ELSE Bind(parse_zn(zn, g.v, Len(time)), LAMBDA z :
            IF z.status # "ok" THEN Raise(z.exc, z.msg)
            ELSE Ok([ix |-> data, dtype |-> dtype, time |-> time,
                     item |-> item,
                     dims |-> d1.v, geometry |-> g.v, zn |-> z.v])))))

-----------------------------------------------------------------------------
(* Axis resolution and the geometries' own subsetting *)

\* an axis argument: an integer or a name
AxInt(i) == [k |-> "int", i |-> i, n |-> ""]

AxName(n) == [k |-> "name", i |-> 0, n |-> n]

\* an index argument: None, an integer, a list of integers or slice(a, b)
IdxNone == [k |-> "none", v |-> <<>>]

IdxInt(i) == [k |-> "int", v |-> <<i>>]

IdxList(l) == [k |-> "list", v |-> l]

IdxSlice(a, b) == [k |-> "slice", v |-> <<a, b>>]

Min(a, b) == IF a < b THEN a ELSE b

\* list(range(*slice(a, b).indices(n))) for 0 <= a, 0 <= b: both ends are
\* clipped to n
SliceIndices(a, b, n) ==
    LET lo == Min(a, n)
        hi == Min(b, n)
    IN IF hi > lo THEN [k \in 1..(hi - lo) |-> lo + k - 1] ELSE <<>>

IndexOf(x, s) == CHOOSE i \in 1..Len(s) : s[i] = x /\ \A j \in 1..(i - 1) : s[j] # x

\* DataUtilsMixin._parse_axis: an integer is taken as it is, "time" is axis 0,
\* "space" is the tuple of all axes except time, any other name is looked
\* up in dims and rejected when absent.  The result is the list of axes and
\* whether it is a tuple.
parse_axis(shape, dims, axis) ==
    IF axis.k = "int" THEN Val([multi |-> FALSE, ax |-> <<axis.i>>])
    ELSE IF axis.n = "time" THEN Val([multi |-> FALSE, ax |-> <<0>>])
    ELSE IF axis.n = "space"
         THEN IF InSeq("time", dims)
              THEN Val([multi |-> TRUE, ax |-> [i \in 1..(Len(shape) - 1) |-> i]])
              ELSE Val([multi |-> TRUE, ax |-> [i \in 1..Len(shape) |-> i - 1]])
    ELSE IF InSeq(axis.n, dims)
         THEN Val([multi |-> FALSE, ax |-> <<IndexOf(axis.n, dims) - 1>>])
    ELSE Err("ValueError", "axis argument not supported")

\* DataUtilsMixin._axis_to_spatial_axis
axis_to_spatial_axis(dims, axis) ==
    IF Len(dims) > 0 /\ dims[1] = "time" THEN axis - 1 ELSE axis

\* hasattr(geometry, "isel")
HasIsel(g) == g.kind \in {"Grid1D", "Grid2D", "FM", "FMLayered"}

SameLayer(elems) == \A i, j \in 1..Len(elems) : LayerOf(elems[i]) = LayerOf(elems[j])

\* geometry.isel(idx, axis): a single index leaves a point (an undefined
\* geometry for a Grid1D without coordinates, the other axis for a Grid2D);
\* several indices leave the geometry of the selected part.  Elements of a
\* layered mesh that all lie in one layer form a flat 2D mesh.
geometry_isel(g, idx, single, spatial_axis) ==
    IF g.kind = "Grid1D" THEN
        IF \E k \in 1..Len(idx) : idx[k] >= g.nx
        THEN Err("IndexError", "index out of bounds")
        ELSE IF single THEN Val(GeometryUndefined) ELSE Val(Grid1D(Len(idx)))
    ELSE IF g.kind = "Grid2D" THEN
        IF spatial_axis \notin {0, 1}
        THEN Err("ValueError", "axis must be 0 or 1")
        ELSE IF \E k \in 1..Len(idx) :
                    idx[k] >= (IF spatial_axis = 0 THEN g.ny ELSE g.nx)
        THEN Err("IndexError", "index out of bounds")
        ELSE IF single
        THEN Val(Grid1D(IF spatial_axis = 0 THEN g.nx ELSE g.ny))
        ELSE IF spatial_axis = 0 THEN Val(Grid2D(Len(idx), g.nx))
        ELSE Val(Grid2D(g.ny, Len(idx)))
    ELSE IF \E k \in 1..Len(idx) : idx[k] >= Len(g.elems)
        THEN Err("IndexError", "index out of bounds")
    ELSE IF single THEN Val(GeometryPoint)
    ELSE IF g.kind = "FMLayered" /\ ~SameLayer(Pick(g.elems, idx))
        THEN Val(GeometryFMLayered(Pick(g.elems, idx)))
    ELSE Val(GeometryFM(Pick(g.elems, idx)))

\* geometry._get_nodes_and_table_for_elements(idx, node_layers="all"): the
\* positions, among the geometry's nodes, of the nodes of the elements idx
get_nodes_for_elements(g, idx) ==
    LET nodes == GeometryNodes(g)
        wanted == NodesOfElements(Pick(g.elems, idx))
    IN SortedSeq({p \in 0..(Len(nodes) - 1) : nodes[p + 1] \in wanted})

-----------------------------------------------------------------------------
(* Positional selection: DataArray.isel *)

\* the elevation kept whole when time steps are selected
zn_of_steps_whole(self, idx, single) == self.zn

\* zn = None if self._zn is None else self._zn[idx] (line 1246)
zn_of_steps(self, idx, single) ==
    IF ~self.zn.some THEN NoneZn
    ELSE IF single THEN SomeZn(TakeScalar(self.zn.ix, 0, idx[1]))
    ELSE SomeZn(TakeList(self.zn.ix, 0, idx))

\* the elevation kept with all the nodes of the source mesh
zn_of_elements_all_nodes(self, idx) == self.zn

\* zn = self._zn[:, node_ids] with the nodes of the elements idx (lines 1255-1258)
zn_of_elements(self, idx) ==
    SomeZn(TakeList(self.zn.ix, 1, get_nodes_for_elements(self.geometry, idx)))

\* an index of the list is past the last of n positions
OutOfBounds(idx, n) == \E k \in 1..Len(idx) : idx[k] >= n

\* time, geometry and zn of the selection (lines 1243-1258)
isel_parts(self, axis, idx, single) ==
    IF axis = 0 /\ Len(self.dims) = 0
    THEN Err("IndexError", "tuple index out of range")
    ELSE IF axis = 0 /\ self.dims[1] = "time" THEN
        IF OutOfBounds(idx, Len(self.time))
        THEN Err("IndexError", "index out of bounds")
        ELSE IF self.zn.some /\ Len(self.zn.ix) = 0
        THEN Err("IndexError", "invalid index to scalar variable")
        ELSE Val([time |-> Pick(self.time, idx),
                  geometry |-> self.geometry,
                  zn |-> zn_of_steps(self, idx, single)])
    ELSE IF ~HasIsel(self.geometry)
        THEN Val([time |-> self.time, geometry |-> GeometryUndefined, zn |-> NoneZn])
    ELSE LET g == geometry_isel(self.geometry, idx, single,
                                axis_to_spatial_axis(self.dims, axis))
         IN IF g.status # "ok" THEN g
            ELSE IF ~IsLayered(g.v)
            THEN Val([time |-> self.time, geometry |-> g.v, zn |-> NoneZn])
            ELSE IF ~self.zn.some
            THEN Err("TypeError", "'NoneType' object is not subscriptable")
            ELSE IF Len(self.zn.ix) # 2
            THEN Err("IndexError", "too many indices for array")
            ELSE Val([time |-> self.time,
                      geometry |-> g.v,
                      zn |-> zn_of_elements(self, idx)])

\* the axis kept in dims although a single index was taken
DropDim_kept(dims, axis) == dims

\* tuple([d for i, d in enumerate(dims) if i != axis])
DropDim(dims, axis) == IF axis + 1 <= Len(dims) THEN RemoveAt(dims, axis + 1) ELSE dims

\* only None counts as no index
IsEmptyIndex_none_only(idx, l) == idx.k = "none"

\* idx is None or (not np.isscalar(idx) and len(idx) == 0), l the resolved list
IsEmptyIndex(idx, l) == idx.k = "none" \/ (idx.k # "int" /\ Len(l) = 0)

\* isel from the axis resolution on (lines 1232-1275); idx is an index
\* argument, axis an integer or a name.  A slice is resolved against
\* shape[axis] first, then None and the empty index return None, and only
\* then the axis is used to take the data.
isel_axis(self, idx, axis) ==
    LET pa == parse_axis(Shape(self.ix), self.dims, axis)
    IN IF pa.status # "ok" THEN Raise(pa.exc, pa.msg)
       ELSE IF idx.k = "slice" /\ pa.v.multi
       THEN Raise("TypeError", "tuple indices must be integers or slices, not tuple")
       ELSE IF idx.k = "slice" /\ pa.v.ax[1] + 1 > Len(self.ix)
       THEN Raise("IndexError", "tuple index out of range")
       ELSE LET l == IF idx.k = "slice"
                     THEN SliceIndices(idx.v[1], idx.v[2], Len(self.ix[pa.v.ax[1] + 1]))
                     ELSE idx.v
                single == Len(l) = 1
            IN IF IsEmptyIndex(idx, l)
               THEN ReturnsNone
               ELSE IF pa.v.multi
               THEN Raise("TypeError", "axis must be an integer")
               ELSE LET ax == pa.v.ax[1]
                        p == isel_parts(self, ax, l, single)
                    IN IF p.status # "ok" THEN Raise(p.exc, p.msg)
                       ELSE IF ax + 1 > Len(self.ix)
                       THEN Raise("AxisError", "axis is out of bounds for array")
                       ELSE IF OutOfBounds(l, Len(self.ix[ax + 1]))
                       THEN Raise("IndexError", "index out of bounds")
                       ELSE DataArray(
                              IF single THEN TakeScalar(self.ix, ax, l[1])
                              ELSE TakeList(self.ix, ax, l),
                              self.dtype, p.v.time, deepcopy(self.item),
                              p.v.geometry, p.v.zn,
                              SomeDims(IF single THEN DropDim(self.dims, ax)
                                       ELSE self.dims))

\* a keyword argument of isel: name=idx
Kw(name, idx) == [name |-> name, idx |-> idx]

HasKw(kwargs, name) == \E i \in 1..Len(kwargs) : kwargs[i].name = name

KwValue(kwargs, name) ==
    kwargs[CHOOSE i \in 1..Len(kwargs) : kwargs[i].name = name].idx

\* the loop over the keywords (lines 1221-1230): each one that names a dim
\* becomes the axis and the index, a second index is not implemented, a
\* name that is no dim is rejected
RECURSIVE isel_kwargs(_, _, _, _, _)
isel_kwargs(self, idx, axis, kwargs, k) ==
    IF k > Len(kwargs) THEN Val([idx |-> idx, axis |-> axis])
    ELSE IF ~InSeq(kwargs[k].name, self.dims)
    THEN Err("ValueError", "dim is not present in dims")
    ELSE IF idx.k # "none"
    THEN Err("NotImplementedError", "Selecting on multiple dimensions in the same call")
    ELSE isel_kwargs(self, kwargs[k].idx, AxName(kwargs[k].name), kwargs, k + 1)

\* isel without the Grid2D shortcut
isel_one(self, idx, axis, kwargs) ==
    LET kw == isel_kwargs(self, idx, axis, kwargs, 1)
    IN IF kw.status # "ok" THEN Raise(kw.exc, kw.msg)
       ELSE isel_axis(self, kw.v.idx, kw.v.axis)

\* isel with the keyword loop alone
isel_no_shortcut(self, idx, axis, kwargs) == isel_one(self, idx, axis, kwargs)

\* DataArray.isel(idx=None, axis=0, **kwargs); with a Grid2D and both x and
\* y given it is self.isel(x=idx_x).isel(y=idx_y), and a first step that
\* returns None makes the second an AttributeError
isel(self, idx, axis, kwargs) ==
    IF self.geometry.kind = "Grid2D" /\ HasKw(kwargs, "x") /\ HasKw(kwargs, "y")
    THEN Bind(isel_one(self, IdxNone, AxInt(0), <<Kw("x", KwValue(kwargs, "x"))>>),
              LAMBDA first :
                IF first.status = "raise" THEN first
                ELSE IF first.status = "none"
                THEN Raise("AttributeError", "'NoneType' object has no attribute 'isel'")
                ELSE isel_one(first.arr, IdxNone, AxInt(0), <<Kw("y", KwValue(kwargs, "y"))>>))
    ELSE isel_one(self, idx, axis, kwargs)

-----------------------------------------------------------------------------
(* squeeze, aggregate, quantile, arithmetic and comparison *)

\* the axes np.squeeze keeps
RECURSIVE SqueezeAxes(_)
SqueezeAxes(ix) ==
    IF Len(ix) = 0 THEN <<>>
    ELSE (IF Len(Head(ix)) # 1 THEN <<Head(ix)>> ELSE <<>>) \o SqueezeAxes(Tail(ix))

\* [d for s, d in zip(shape, dims) if s != 1]: zip stops at the shorter one
RECURSIVE SqueezeDims(_, _)
SqueezeDims(shape, dims) ==
    IF Len(shape) = 0 \/ Len(dims) = 0 THEN <<>>
    ELSE (IF Head(shape) # 1 THEN <<Head(dims)>> ELSE <<>>)
         \o SqueezeDims(Tail(shape), Tail(dims))

squeeze(self) ==
    DataArray(SqueezeAxes(self.ix), self.dtype, self.time, self.item, self.geometry, self.zn,
              SomeDims(SqueezeDims(Shape(self.ix), self.dims)))

\* s without the positions (0-based) listed in axes
RECURSIVE DropAxes(_, _, _)
DropAxes(s, axes, i) ==
    IF i > Len(s) THEN <<>>
    ELSE (IF (i - 1) \in axes THEN <<>> ELSE <<s[i]>>) \o DropAxes(s, axes, i + 1)

\* the last instant instead of the first when axis 0 is reduced
time_by_agg_axis_last(time, pa) == IF 0 \in Range(pa.ax) THEN <<time[Len(time)]>> ELSE time

\* DataUtilsMixin._time_by_agg_axis: the first instant when axis 0 is reduced
time_by_agg_axis(time, pa) == IF 0 \in Range(pa.ax) THEN <<time[1]>> ELSE time

\* axis == 0 as the code tests it: false for a tuple
IsAxis0(pa) == ~pa.multi /\ pa.ax[1] = 0

\* func(values, axis=axis): numpy rejects an axis the buffer does not have
ReducibleAxes(ix, pa) == \A i \in 1..Len(pa.ax) : pa.ax[i] < Len(ix)

\* as many leading names dropped as there are reduced axes
agg_dims_leading(dims, axes) == SubSeq(dims, Cardinality(axes) + 1, Len(dims))

\* tuple([d for i, d in enumerate(self.dims) if i not in axis]), and
\* i != axis for one axis (lines 1901-1904)
agg_dims(dims, axes) == DropAxes(dims, axes, 1)

aggregate(self, axis) ==
    LET p == parse_axis(Shape(self.ix), self.dims, axis)
    IN IF p.status # "ok" THEN Raise(p.exc, p.msg)
       ELSE IF ~ReducibleAxes(self.ix, p.v)
       THEN Raise("AxisError", "axis is out of bounds for array")
       ELSE IF IsAxis0(p.v) /\ self.zn.some /\ Len(self.zn.ix) = 0
       THEN Raise("IndexError", "invalid index to scalar variable")
       ELSE DataArray(DropAxes(self.ix, Range(p.v.ax), 1), self.dtype,
                      time_by_agg_axis(self.time, p.v), deepcopy(self.item),
                      IF IsAxis0(p.v) THEN self.geometry ELSE GeometryUndefined,
                      IF IsAxis0(p.v) /\ self.zn.some
                      THEN SomeZn(TakeScalar(self.zn.ix, 0, 0)) ELSE NoneZn,
                      SomeDims(agg_dims(self.dims, Range(p.v.ax))))

\* _quantile with a scalar q: dims drops the positions i != axis, which for
\* a tuple axis drops nothing
quantile(self, axis) ==
    LET p == parse_axis(Shape(self.ix), self.dims, axis)
    IN IF p.status # "ok" THEN Raise(p.exc, p.msg)
       ELSE IF ~ReducibleAxes(self.ix, p.v)
       THEN Raise("AxisError", "axis is out of bounds for array")
       ELSE DataArray(DropAxes(self.ix, Range(p.v.ax), 1), self.dtype,
                      time_by_agg_axis(self.time, p.v), deepcopy(self.item),
                      IF IsAxis0(p.v) THEN self.geometry ELSE GeometryUndefined,
                      IF IsAxis0(p.v) THEN self.zn ELSE NoneZn,
                      SomeDims(IF p.v.multi THEN self.dims
                               ELSE DropAxes(self.dims, Range(p.v.ax), 1)))

\* the other operand of an operator: a bare number or an array of a shape
Scalar == [k |-> "scalar", shape |-> <<>>]

ArrayOf(shape) == [k |-> "array", shape |-> shape]

Max(a, b) == IF a > b THEN a ELSE b

\* shape s padded in front with 1s to rank n
Padded(s, n) == [i \in 1..n |-> IF i <= n - Len(s) THEN 1 ELSE s[i - (n - Len(s))]]

\* numpy broadcasting of two shapes
Broadcastable(s, t) ==
    LET n == Max(Len(s), Len(t))
    IN \A i \in 1..n :
         \/ Padded(s, n)[i] = Padded(t, n)[i]
         \/ Padded(s, n)[i] = 1
         \/ Padded(t, n)[i] = 1

BroadcastShape(s, t) ==
    LET n == Max(Len(s), Len(t))
    IN [i \in 1..n |-> Max(Padded(s, n)[i], Padded(t, n)[i])]

\* _boolmask_to_new_DataArray: a new array from the mask, with time, geometry
\* and zn of self, and no dims
boolmask_to_new_DataArray(self, bmask) ==
    DataArray(bmask, "bool", self.time, ItemInfo(<<"Boolean">>), self.geometry, self.zn, NoDims)

\* __lt__, __gt__, __le__, __ge__, __eq__, __ne__: the mask has the
\* broadcast shape; the rows of self the broadcast repeats keep their origin
compare(self, other) ==
    IF ~Broadcastable(Shape(self.ix), other.shape)
    THEN Raise("ValueError", "operands could not be broadcast together")
    ELSE IF BroadcastShape(Shape(self.ix), other.shape) = Shape(self.ix)
    THEN boolmask_to_new_DataArray(self, self.ix)
    ELSE boolmask_to_new_DataArray(self,
             Buffer(BroadcastShape(Shape(self.ix), other.shape)))

\* interp_time(dt) to a time index of n_out instants: the data and the
\* elevation are interpolated along their first axis, which has to be as
\* long as the time index; the item is copied and dims are left out
interp_time(self, n_out) ==
    IF Len(self.ix) = 0 \/ Len(self.ix[1]) # Len(self.time)
    THEN Raise("ValueError", "x and y arrays must be equal in length along interpolation axis")
    ELSE IF self.zn.some /\ (Len(self.zn.ix) = 0 \/ Len(self.zn.ix[1]) # Len(self.time))
    THEN Raise("ValueError", "x and y arrays must be equal in length along interpolation axis")
    ELSE DataArray([self.ix EXCEPT ![1] = Iota(n_out)], self.dtype, Iota(n_out),
                   deepcopy(self.item), self.geometry,
                   IF self.zn.some THEN SomeZn([self.zn.ix EXCEPT ![1] = Iota(n_out)])
                   ELSE NoneZn,
                   NoDims)

\* the name setter: self.item.name = value
name_setter(self, value) == [self EXCEPT !.item.name = value]

\* an array as it reads after the name of the receiver's item was set: it
\* has the new name when it holds the very object
after_name_setter(a, receiver, value) ==
    IF a.item.id = receiver.item.id THEN name_setter(a, value) ELSE a

\* another DataArray as the other operand, and one that is no number at all
DataArrayOf(shape, item) == [k |-> "DataArray", shape |-> shape, item |-> item]

NotANumber == [k |-> "str", shape |-> <<>>]

\* copy(): deepcopy(self)
copy(self) == [self EXCEPT !.item = deepcopy(self.item)]

\* the values setter with its shape test left out
values_setter_unchecked(self, value) == Val([self EXCEPT !.ix = value])

\* the values setter (lines 1007-1012)
values_setter(self, value) ==
    IF Shape(value) # Shape(self.ix)
    THEN Err("ValueError", "Shape of new data is wrong")
    ELSE Val([self EXCEPT !.ix = value])

\* func(self.values, other_values): numpy broadcasts the two buffers; the
\* rows of self that are not repeated keep their origin
ufunc(self, other) ==
    IF other.k = "str"
    THEN Err("TypeError", "ufunc did not contain a loop with signature matching types")
    ELSE IF ~Broadcastable(Shape(self.ix), other.shape)
    THEN Err("ValueError", "operands could not be broadcast together")
    ELSE IF BroadcastShape(Shape(self.ix), other.shape) = Shape(self.ix)
    THEN Val(self.ix)
    ELSE Val(Buffer(BroadcastShape(Shape(self.ix), other.shape)))

\* the item kept for every operand that is a number or an array
keep_EUM_unless_DataArray(self, other, txt) == other.k # "DataArray"

\* _keep_EUM_after_math_operation; txt stands for func, "-" for np.subtract
\* (np.sum is the func of no operator)
keep_EUM_after_math_operation(self, other, txt) ==
    IF other.k \in {"array", "DataArray"}
    THEN IF txt = "-"
         THEN IF other.k = "DataArray"
              THEN self.item.type = other.item.type /\ self.item.unit = other.item.unit
              ELSE TRUE
         ELSE FALSE
    ELSE TRUE

\* other.name if hasattr(other, "name") else "array"
other_name(other) == IF other.k = "DataArray" THEN other.item.name ELSE <<"array">>

\* _apply_math_operation(other, func, txt): func(self.values, other_values),
\* then a copy of self that is given the data and, unless the EUM is kept,
\* a new item
apply_math_operation(self, other, txt) ==
    LET data == ufunc(self, other)
    IN IF data.status # "ok"
       THEN Raise("ValueError", "Math operation could not be applied to DataArray")
       ELSE LET new_da == values_setter(copy(self), data.v)
            IN IF new_da.status # "ok" THEN Raise(new_da.exc, new_da.msg)
               ELSE IF ~keep_EUM_after_math_operation(self, other, txt)
               THEN Ok([new_da.v EXCEPT
                           !.item = ItemInfo(self.item.name \o <<txt>> \o other_name(other))])
               ELSE Ok(new_da.v)

\* _apply_unary_math_operation(func) for np.negative, np.positive, np.abs
apply_unary_math_operation(self) ==
    LET new_da == values_setter(copy(self), self.ix)
    IN IF new_da.status # "ok" THEN Raise(new_da.exc, new_da.msg) ELSE Ok(new_da.v)

-----------------------------------------------------------------------------
(* flipud, __getitem__, dropna and sel *)

\* the call returned the receiver itself, not a new instance
ReturnsSelf(a) == [status |-> "self", exc |-> "", msg |-> "", arr |-> a]

\* _has_time_axis: self.dims[0][0] == "t"; dims[0] of an empty tuple fails
has_time_axis(self) ==
    IF Len(self.dims) = 0 THEN Err("IndexError", "tuple index out of range")
    ELSE Val(self.dims[1] = "time")

Reverse(s) == [i \in 1..Len(s) |-> s[Len(s) + 1 - i]]

\* flipud(): the buffer flipped along the first axis that is not time is
\* given to the values setter, and self is returned
flipud(self) ==
    LET t == has_time_axis(self)
    IN IF t.status # "ok" THEN Raise(t.exc, t.msg)
       ELSE LET first_non_t_axis == IF t.v THEN 1 ELSE 0
            IN IF first_non_t_axis + 1 > Len(self.ix)
               THEN Raise("AxisError", "axis is out of bounds for array")
               ELSE LET new == values_setter(
                                 self, [self.ix EXCEPT ![first_non_t_axis + 1] = Reverse(@)])
                    IN IF new.status # "ok" THEN Raise(new.exc, new.msg)
                       ELSE ReturnsSelf(new.v)

\* the components of a key: slice(None), a time label, a list of time labels
KeyAll == [k |-> "all", v |-> <<>>]

Label(t) == [k |-> "label", v |-> <<t>>]

Labels(l) == [k |-> "labels", v |-> l]

\* a list that holds labels and other things
MixedList == [k |-> "mixed", v |-> <<>>]

\* a key is one object or a tuple of components
Key(kind, c) == [kind |-> kind, c |-> c]

\* the 0-based positions of the stamps of l that time holds, in l's order
RECURSIVE Positions(_, _)
Positions(time, l) ==
    IF Len(l) = 0 THEN <<>>
    ELSE (IF InSeq(Head(l), time) THEN <<IndexOf(Head(l), time) - 1>> ELSE <<>>)
         \o Positions(time, Tail(l))

\* DataUtilsMixin._get_time_idx_list(time, steps): the list of positions
\* an integer, a list, a slice, a label or a list of labels stands for
get_time_idx_list(time, steps) ==
    IF steps.k = "int" THEN Val(steps.v)
    ELSE IF steps.k = "slice" THEN Val(SliceIndices(steps.v[1], steps.v[2], Len(time)))
    ELSE IF steps.k \in {"label", "labels"} THEN Val(Positions(time, steps.v))
    ELSE IF steps.k = "mixed" THEN Err("TypeError", "not a time label")
    ELSE Val(steps.v)

\* equal neighbours let through: np.diff(key) >= 0
NotDecreasing(l) == \A i \in 1..(Len(l) - 1) : l[i + 1] - l[i] >= 0

\* np.all(np.diff(key) >= 1)
Increasing(l) == \A i \in 1..(Len(l) - 1) : l[i + 1] - l[i] >= 1

\* list(key) of a tuple of components
ListOfKey(c) ==
    IF \A j \in 1..Len(c) : c[j].k = "int"
    THEN IdxList([j \in 1..Len(c) |-> c[j].v[1]])
    ELSE IF \A j \in 1..Len(c) : c[j].k = "label"
    THEN Labels([j \in 1..Len(c) |-> c[j].v[1]])
    ELSE MixedList

\* _getitem_parse_key (lines 1096-1121): a tuple of integers longer than
\* ndim and increasing becomes one list, a tuple with a time label after
\* its first component becomes one list if the array has a time axis; what
\* is no tuple becomes a tuple of one; more components than dims are an
\* IndexError
getitem_parse_key(self, key) ==
    LET c == key.c
        all_idx_int == \A j \in 1..Len(c) : c[j].k = "int"
        any_idx_after_0_time == \E j \in 2..Len(c) : c[j].k = "label"
        k1 == IF key.kind = "tuple" /\ all_idx_int /\ Len(c) > Len(self.ix)
                 /\ Increasing([j \in 1..Len(c) |-> c[j].v[1]])
              THEN <<ListOfKey(c)>> ELSE c
        t == IF key.kind = "tuple" /\ any_idx_after_0_time
             THEN has_time_axis(self) ELSE Val(FALSE)
    IN IF t.status # "ok" THEN Err(t.exc, t.msg)
       ELSE LET k2 == IF t.v THEN <<ListOfKey(k1)>> ELSE k1
            IN IF Len(k2) > Len(self.dims)
               THEN Err("IndexError", "Key has more dimensions than DataArray")
               ELSE Val(k2)

\* the loop of __getitem__ (lines 1086-1094) from component j on; cur is
\* what da holds: self, a new array or None
RECURSIVE getitem_loop(_, _, _, _)
getitem_loop(self, cur, key, j) ==
    IF j > Len(key) THEN cur
    ELSE IF key[j].k = "all" THEN getitem_loop(self, cur, key, j + 1)
    ELSE LET on_time == self.dims[j] = "time"
             steps == IF on_time THEN get_time_idx_list(self.time, key[j]) ELSE Val(key[j].v)
         IN IF steps.status # "ok" THEN Raise(steps.exc, steps.msg)
            ELSE IF on_time /\ Len(steps.v) = 0
            THEN Raise("IndexError", "No timesteps found!")
            ELSE IF cur.status = "none"
            THEN Raise("AttributeError", "'NoneType' object has no attribute 'isel'")
            ELSE IF ~on_time /\ key[j].k \in {"label", "labels", "mixed"}
            THEN Raise("TypeError", "index is not an integer")
            ELSE Bind(isel(cur.arr, IF on_time THEN IdxList(steps.v) ELSE key[j],
                           AxName(self.dims[j]), <<>>),
                      LAMBDA nxt : IF nxt.status = "raise" THEN nxt
                                   ELSE getitem_loop(self, nxt, key, j + 1))

\* __getitem__(key) for a key that is no boolean mask (lines 1083-1094)
getitem_by_key(self, key) ==
    LET k == getitem_parse_key(self, key)
    IN IF k.status # "ok" THEN Raise(k.exc, k.msg)
       ELSE getitem_loop(self, ReturnsSelf(self), k.v, 1)

\* the call returned a numpy array and no DataArray: its values, each one
\* named by the original positions of its cell
ReturnsData(cells) ==
    [status |-> "data", exc |-> "", msg |-> "", arr |-> NoArray, data |-> cells]

\* values.ravel(): the cells of a buffer in flat (row-major) order, each
\* cell the tuple of the original positions along the axes
RECURSIVE FlatCells(_)
FlatCells(ix) ==
    IF Len(ix) = 0 THEN << <<>> >>
    ELSE LET rest == FlatCells(Tail(ix))
         IN [p \in 1..(Len(Head(ix)) * Len(rest)) |->
                <<Head(ix)[((p - 1) \div Len(rest)) + 1]>> \o rest[((p - 1) % Len(rest)) + 1]]

\* DataUtilsMixin._is_boolean_mask(key): an array of booleans
is_boolean_mask(key) == key.kind = "mask"

\* cells[mask] for a flat mask
RECURSIVE Where(_, _)
Where(cells, mask) ==
    IF Len(cells) = 0 \/ Len(mask) = 0 THEN <<>>
    ELSE (IF Head(mask) THEN <<Head(cells)>> ELSE <<>>) \o Where(Tail(cells), Tail(mask))

\* DataUtilsMixin._get_by_boolean_mask(data, mask) for a mask of the shape
\* of data: data[mask], a 1-D array
get_by_boolean_mask(data, mask) == ReturnsData(Where(FlatCells(data), mask))

\* the mask test left out: every value is returned
getitem_all_values(self, key) ==
    IF is_boolean_mask(key) THEN ReturnsData(FlatCells(self.ix))
    ELSE getitem_by_key(self, key)

\* __getitem__(key) (lines 1078-1094): a boolean mask, an array or the
\* values of a DataArray, selects by mask; any other key by axis
getitem(self, key) ==
    IF is_boolean_mask(key) THEN get_by_boolean_mask(self.ix, key.c)
    ELSE getitem_by_key(self, key)

\* dropna(): the time steps that are not all NaN, selected on axis 0;
\* all_nan is the set of positions of the steps whose values are all NaN
dropna(self, all_nan) ==
    LET t == has_time_axis(self)
    IN IF t.status # "ok" THEN Raise(t.exc, t.msg)
       ELSE IF ~t.v THEN Raise("ValueError", "Not available if no time axis!")
       ELSE isel(self,
                 IdxList(SortedSeq({p \in 0..(Len(self.ix[1]) - 1) : p \notin all_nan})),
                 AxInt(0), <<>>)

\* what geometry.find_index(**kwargs) returned: nothing asked, one index
\* sequence, or the pair (ii, jj)
NotAsked == [k |-> "none", idx |-> IdxNone, ii |-> IdxNone, jj |-> IdxNone]

Flat(idx) == [k |-> "flat", idx |-> idx, ii |-> IdxNone, jj |-> IdxNone]

Pair(ii, jj) == [k |-> "pair", idx |-> IdxNone, ii |-> ii, jj |-> jj]

\* the second step of the paired selection: ii on the axis sp_axis, after
\* jj gave first
sel_ii(first, ii, axis) ==
    IF first.status = "raise" \/ ii.k = "none" THEN first
    ELSE IF first.status = "none"
    THEN Raise("AttributeError", "'NoneType' object has no attribute 'isel'")
    ELSE isel(first.arr, ii, AxInt(axis), <<>>)

\* the axis of ii taken as the second spatial axis whatever jj selected
sp_axis_second(jj) == 1

\* sp_axis = 0 if (jj is not None and len(jj) == 1) else 1 (line 1400)
sp_axis(jj) == IF jj.k # "none" /\ Len(jj.v) = 1 THEN 0 ELSE 1

\* the spatial part of sel (lines 1390-1403)
sel_space(self, found) ==
    IF found.k = "none" THEN ReturnsSelf(self)
    ELSE IF found.k = "flat" THEN isel(self, found.idx, AxName("space"), <<>>)
    ELSE LET t == has_time_axis(self)
         IN IF t.status # "ok" THEN Raise(t.exc, t.msg)
            ELSE LET t_ax_offset == IF t.v THEN 1 ELSE 0
                 IN Bind(IF found.jj.k # "none"
                         THEN isel(self, found.jj, AxInt(0 + t_ax_offset), <<>>)
                         ELSE ReturnsSelf(self),
                         LAMBDA first : sel_ii(first, found.ii, sp_axis(found.jj) + t_ax_offset))

\* the time part of sel (lines 1405-1415), by isel for integers and by
\* __getitem__ for anything else; s is what da holds after the spatial part
sel_time(s, time) ==
    IF s.status = "raise" \/ time.k = "none" THEN s
    ELSE IF time.k = "list" /\ Len(time.v) = 0
    THEN Raise("IndexError", "list index out of range")
    ELSE IF time.k \in {"int", "list"}
    THEN IF s.status = "none"
         THEN Raise("AttributeError", "'NoneType' object has no attribute 'isel'")
         ELSE isel(s.arr, time, AxName("time"), <<>>)
    ELSE IF s.status = "none"
    THEN Raise("TypeError", "'NoneType' object is not subscriptable")
    ELSE getitem(s.arr, Key("one", <<time>>))

\* sel(time, **kwargs): the spatial part, then the time part
sel(self, time, found) ==
    Bind(sel_space(self, found), LAMBDA s : sel_time(s, time))

\* a row of the buffer that was written over is a row of no origin
Overwritten == -1

\* self._values[key] = value, and _set_by_boolean_mask(self._values, mask,
\* value): row i of the first axis is written in place
setitem(self, i) == [self EXCEPT !.ix[1][i + 1] = Overwritten]

\* the call returned a value that is no array: a boolean
ReturnsValue(v) == [status |-> "value", exc |-> "", msg |-> "", arr |-> NoArray, data |-> v]

\* something that is no DataArray
NotADataArray == [k |-> "other"]

\* the first and the last value of an elevation buffer with values
ZnEnds(zn) == <<FlatCells(zn.ix)[1], FlatCells(zn.ix)[Len(FlatCells(zn.ix))]>>

\* an elevation buffer without values has no first element
ZnHasValues(zn) == Len(FlatCells(zn.ix)) > 0

\* the problems _is_compatible collects (lines 874-897); the geometries
\* are compared as self.geometry == self.geometry
problems(self, other) ==
    (IF Shape(self.ix) # Shape(other.ix) THEN {"shape of data must be the same"} ELSE {})
    \cup (IF Len(self.time) # Len(other.time)
          THEN {"Number of timesteps must be the same"} ELSE {})
    \cup (IF self.time[1] # other.time[1] THEN {"start_time must be the same"} ELSE {})
    \cup (IF self.geometry.kind # other.geometry.kind
          THEN {"The type of geometry must be the same"} ELSE {})
    \cup (IF ~(self.geometry = self.geometry) THEN {"The geometries must be the same"} ELSE {})
    \cup (IF self.zn.some /\ (\/ ~other.zn.some
                               \/ Shape(self.zn.ix) # Shape(other.zn.ix)
                               \/ ZnEnds(self.zn) # ZnEnds(other.zn))
          THEN {"zn must be the same"} ELSE {})
    \cup (IF self.dims # other.dims
          THEN {"Dimension names (dims) must be the same"} ELSE {})

\* _is_compatible(other, raise_error) (lines 869-902)
is_compatible(self, other, raise_error) ==
    IF other = NotADataArray THEN ReturnsValue(FALSE)
    ELSE IF self.zn.some /\ other.zn.some /\ Shape(self.zn.ix) = Shape(other.zn.ix)
            /\ ~ZnHasValues(self.zn)
    THEN Raise("IndexError", "index 0 is out of bounds for axis 0 with size 0")
    ELSE IF raise_error /\ problems(self, other) # {}
    THEN Raise("ValueError", "problems")
    ELSE ReturnsValue(problems(self, other) = {})

-----------------------------------------------------------------------------
(* Inputs of the constructor *)

\* a time index of n distinct, increasing stamps
TimeIndex(n) == Iota(n)

SeqsUpTo(S, n) == UNION {[1..k -> S] : k \in 0..n}

Shapes == SeqsUpTo(1..MaxN, MaxRank)

DimNames == {"time", "y", "x"}

DimsChoices == {NoDims} \cup {SomeDims(d) : d \in SeqsUpTo(DimNames, MaxRank)}

GridGeometries ==
    {GeometryUndefined, Grid3D, GeometryFMPointSpectrum}
    \cup {Grid1D(n) : n \in 1..MaxN}
    \cup {Grid2D(m, n) : m \in 1..MaxN, n \in 1..MaxN}
    \cup {GeometryFM(Iota(n)) : n \in 1..MaxN}
    \cup {GeometryFMAreaSpectrum(Iota(n)) : n \in 1..MaxN}
    \cup {GeometryFMLineSpectrum(n) : n \in 1..MaxN}

Mesh == GeometryFMLayered(MeshElements)

MeshNE == n_elements(Mesh)

MeshNN == n_nodes(Mesh)

LayeredShapes ==
    {<<MeshNE>>, <<MeshNE - 1>>}
    \cup {<<t, MeshNE>> : t \in 1..MaxT}
    \cup {<<t, MeshNE - 1>> : t \in 1..MaxT}

ZnChoices ==
    {NoneZn, SomeZn(Buffer(<<>>)), SomeZn(Buffer(<<MeshNN>>)), SomeZn(Buffer(<<MeshNN - 1>>))}
    \cup {SomeZn(Buffer(<<t, MeshNN>>)) : t \in 1..MaxT}
    \cup {SomeZn(Buffer(<<t, MeshNN - 1>>)) : t \in 1..MaxT}

CtorArgs(shape, nt, geometry, zn, dims) ==
    [shape |-> shape, nt |-> nt, geometry |-> geometry, zn |-> zn, dims |-> dims]

\* shapes that differ in rank and in the first axis only, the other axes full
RECURSIVE Full(_)
Full(r) == IF r = 0 THEN <<>> ELSE <<MaxN>> \o Full(r - 1)

DimsShapes == {<<>>} \cup {<<a>> \o Full(r) : a \in 1..MaxN, r \in 0..(MaxRank - 1)}

DimsGeometries == {GeometryUndefined, Grid1D(MaxN), Grid2D(MaxN, MaxN), GeometryFM(Iota(MaxN))}

\* dims left to be guessed: every buffer, time index and grid geometry
GuessInputs ==
    {CtorArgs(s, nt, g, NoneZn, NoDims) :
        s \in Shapes, nt \in 1..MaxT, g \in GridGeometries}

\* dims given: every tuple of names against every rank and first-axis size
DimsInputs ==
    {CtorArgs(s, nt, g, NoneZn, d) :
        s \in DimsShapes, nt \in 1..MaxT, g \in DimsGeometries, d \in DimsChoices}

\* elevation given or not: mesh-sized buffers against every zn shape
ZnInputs ==
    {CtorArgs(s, nt, g, z, d) :
        s \in LayeredShapes, nt \in 1..MaxT,
        g \in {Mesh, GeometryFM(MeshElements), Grid1D(MeshNE), GeometryUndefined},
        z \in ZnChoices,
        d \in {NoDims, SomeDims(<<"time", "element">>), SomeDims(<<"element">>)}}

CtorInputs == GuessInputs \cup DimsInputs \cup ZnInputs

\* the item an array is constructed with
GivenItem == ItemObject(<<"Level">>, "Water Level", "meter", "held")

Construct(inp) ==
    DataArray(Buffer(inp.shape), "float", TimeIndex(inp.nt), GivenItem,
              inp.geometry, inp.zn, inp.dims)

Call(op, self, args, out) == [op |-> op, self |-> self, args |-> args, out |-> out]

\* the arguments are chosen, the call has not been made yet
Pending == [status |-> "pending", exc |-> "", msg |-> "", arr |-> NoArray]

\* da = DataArray(data, time, geometry=..., zn=..., dims=...)
New ==
    /\ res.op = "args"
    /\ LET out == Construct(res.args)
       IN /\ res' = Call("DataArray", NoArray, res.args, out)
          /\ da' = out.arr

InitCtor ==
    /\ da = NoArray
    /\ \E inp \in CtorInputs : res = Call("args", NoArray, inp, Pending)

NextCtor == New

SpecCtor == InitCtor /\ [][NextCtor]_vars

-----------------------------------------------------------------------------
(* The operations on a constructed array *)

\* the array of the selection scenario: dims ("time", "x"), 5 steps, shape (5, 3)
ScenarioA == CtorArgs(<<5, 3>>, 5, Grid1D(3), NoneZn, SomeDims(<<"time", "x">>))

\* arrays as files and users make them: a grid, a flat mesh or no geometry,
\* with a leading time axis (dims guessed) or without one (dims guessed or
\* named), and the layered mesh with and without its elevation
GridStarts ==
    UNION {
        {CtorArgs(<<nt, n>>, nt, g, NoneZn, NoDims) :
            nt \in 1..MaxT, g \in {Grid1D(n), GeometryFM(Iota(n)), GeometryUndefined}}
        \cup
        {CtorArgs(<<n>>, 1, Grid1D(n), NoneZn, d) : d \in {NoDims, SomeDims(<<"x">>)}}
        \cup
        {CtorArgs(<<n>>, 1, GeometryFM(Iota(n)), NoneZn, d) :
            d \in {NoDims, SomeDims(<<"element">>)}}
        : n \in 1..MaxN}
    \cup
    UNION {
        {CtorArgs(<<nt, m, n>>, nt, Grid2D(m, n), NoneZn, NoDims) : nt \in 1..MaxT}
        \cup
        {CtorArgs(<<m, n>>, 1, Grid2D(m, n), NoneZn, d) :
            d \in {NoDims, SomeDims(<<"y", "x">>)}}
        : m \in 1..MaxN, n \in 1..MaxN}

MeshStarts ==
    UNION {{CtorArgs(<<nt, MeshNE>>, nt, Mesh, z, NoDims) :
                z \in {NoneZn, SomeZn(Buffer(<<nt, MeshNN>>))}} : nt \in 1..MaxT}
    \cup
    {CtorArgs(<<MeshNE>>, 1, Mesh, SomeZn(Buffer(<<MeshNN>>)), SomeDims(<<"element">>))}

StartInputs == {ScenarioA} \cup GridStarts \cup MeshStarts

Init ==
    \E inp \in StartInputs :
        LET out == Construct(inp)
        IN /\ res = Call("DataArray", NoArray, inp, out)
           /\ da = out.arr

\* lists of up to MaxIdxLen increasing positions of an axis of length n
IndexLists(n) ==
    {l \in SeqsUpTo(0..(n - 1), MaxIdxLen) :
        \A i, j \in 1..Len(l) : i < j => l[i] < l[j]}

\* slice(a, b) with a <= b; b = n + 1 reaches past the end of the axis
Slices(n) == UNION {{IdxSlice(a, b) : b \in a..(n + 1)} : a \in 0..n}

Selectors(n) ==
    {IdxNone}
    \cup {IdxInt(i) : i \in 0..(n - 1)}
    \cup {IdxList(l) : l \in IndexLists(n)}
    \cup Slices(n)

\* the selectors tried in the keyword form
KwSelectors(n) == {IdxNone, IdxList(<<>>)} \cup {IdxInt(i) : i \in 0..(n - 1)}

\* a call is made on an array that was just constructed or taken over
IsArray == da # NoArray /\ res.op \in {"DataArray", "use"}

Rank == Len(da.ix)

\* da.isel(idx, axis=i) and da.isel(idx, axis=name), name the i-th of dims
Isel ==
    /\ IsArray
    /\ \E i \in 0..(Rank - 1) :
       \E axis \in {AxInt(i)} \cup {AxName(da.dims[k]) : k \in {i + 1} \cap DOMAIN da.dims} :
       \E idx \in Selectors(Len(da.ix[i + 1])) :
           res' = Call("isel", da, [idx |-> idx, axis |-> axis, kwargs |-> <<>>],
                       isel(da, idx, axis, <<>>))
    /\ UNCHANGED da

\* da.isel(name=idx)
IselKw ==
    /\ IsArray
    /\ \E k \in 1..Len(da.dims) :
       \E idx \in KwSelectors(IF k <= Rank THEN Len(da.ix[k]) ELSE 1) :
           res' = Call("isel", da,
                       [idx |-> IdxNone, axis |-> AxInt(0), kwargs |-> <<Kw(da.dims[k], idx)>>],
                       isel(da, IdxNone, AxInt(0), <<Kw(da.dims[k], idx)>>))
    /\ UNCHANGED da

\* a name that is no dim of any array
NoDimName == "nodim"

\* keyword arguments in the order they are written: one keyword after a
\* positional index, two keywords of different names (the first one possibly
\* None), two names of dims followed by a name that is no dim
KwLists ==
    LET names == Range(da.dims) \cup {NoDimName}
    IN {<<Kw(n, IdxInt(0))>> : n \in names}
       \cup {<<Kw(nv[1], nv[3]), Kw(nv[2], IdxInt(0))>> :
                nv \in {x \in names \X names \X {IdxNone, IdxInt(0)} : x[1] # x[2]}}
       \cup {<<Kw(nn[1], IdxInt(0)), Kw(nn[2], IdxInt(0)), Kw(NoDimName, IdxInt(0))>> :
                nn \in {x \in Range(da.dims) \X Range(da.dims) : x[1] # x[2]}}

\* da.isel(idx, name=..., name=...): a positional index and keywords together
IselMixed ==
    /\ IsArray
    /\ \E idx \in {IdxNone, IdxInt(0)} :
       \E kwargs \in KwLists :
           res' = Call("isel", da, [idx |-> idx, axis |-> AxInt(0), kwargs |-> kwargs],
                       isel(da, idx, AxInt(0), kwargs))
    /\ UNCHANGED da

Squeeze ==
    /\ IsArray
    /\ res' = Call("squeeze", da, <<>>, squeeze(da))
    /\ UNCHANGED da

AxisChoices ==
    {AxInt(i) : i \in 0..(Rank - 1)}
    \cup {AxName(n) : n \in Range(da.dims) \cup {"time", "space"}}

Aggregate ==
    /\ IsArray
    /\ \E axis \in AxisChoices :
           res' = Call("aggregate", da, [axis |-> axis], aggregate(da, axis))
    /\ UNCHANGED da

Quantile ==
    /\ IsArray
    /\ \E axis \in AxisChoices :
           res' = Call("quantile", da, [axis |-> axis], quantile(da, axis))
    /\ UNCHANGED da

\* the operands tried: a number, an array of the same shape, one with a
\* further leading axis, one that cannot be broadcast
Operands ==
    {Scalar, ArrayOf(Shape(da.ix)), ArrayOf(<<2>> \o Shape(da.ix)),
     ArrayOf(Shape(da.ix) \o <<MaxN + 2>>)}

\* the binary operators
Operators == {"+", "-", "*", "/", "//", "%", "**"}

\* further operands of arithmetic: da itself, arrays of the shape of da with
\* another type or another unit, and a string
MathOperands ==
    {DataArrayOf(Shape(da.ix), da.item),
     DataArrayOf(Shape(da.ix), ItemObject(<<"Temp">>, "Temperature", "degree Celsius", "new")),
     DataArrayOf(Shape(da.ix), ItemObject(<<"Depth">>, "Water Level", "feet", "new")),
     DataArrayOf(Shape(da.ix), ItemObject(<<"Other">>, da.item.type, da.item.unit, "new")),
     NotANumber}

\* a comparison is tried with the operands that keep the shape of da or fail
Compare ==
    /\ IsArray
    /\ \E other \in {o \in Operands :
                        Broadcastable(Shape(da.ix), o.shape) =>
                            BroadcastShape(Shape(da.ix), o.shape) = Shape(da.ix)} :
           res' = Call("compare", da, [other |-> other], compare(da, other))
    /\ UNCHANGED da

Math ==
    /\ IsArray
    /\ \E other \in Operands \cup MathOperands :
       \E txt \in Operators :
           res' = Call("math", da, [other |-> other, txt |-> txt],
                       apply_math_operation(da, other, txt))
    /\ UNCHANGED da

\* -da, +da, abs(da)
UnaryMath ==
    /\ IsArray
    /\ \E txt \in {"neg", "pos", "abs"} :
           res' = Call("unary", da, [txt |-> txt], apply_unary_math_operation(da))
    /\ UNCHANGED da

\* da.copy()
Copy ==
    /\ IsArray
    /\ res' = Call("copy", da, <<>>, Ok(copy(da)))
    /\ UNCHANGED da

\* da.interp_time(dt) on an array with a time axis of several steps
InterpTime ==
    /\ IsArray
    /\ InSeq("time", da.dims)
    /\ Len(da.time) > 1
    /\ \E n_out \in 1..MaxT :
           res' = Call("interp_time", da, [n_out |-> n_out], interp_time(da, n_out))
    /\ UNCHANGED da

\* the name the setter is given
NewName == <<"Renamed">>

\* after a call returned an array, derived.name = value or source.name = value
SetName ==
    /\ res.op \in {"isel", "squeeze", "aggregate", "quantile", "interp_time", "copy",
                  "math", "unary", "compare"}
    /\ res.out.status = "ok"
    /\ \E of \in {"derived", "source"} :
         LET receiver == IF of = "derived" THEN res.out.arr ELSE da
         IN /\ da' = after_name_setter(da, receiver, NewName)
            /\ res' = Call("name", res.self,
                           [of |-> of, by |-> res.op, value |-> NewName,
                            was |-> res.out.arr.item.name],
                           Ok(after_name_setter(res.out.arr, receiver, NewName)))

\* an array taken in hand: its item is the held object from now on
InHand(a) == [a EXCEPT !.item.id = "held"]

\* the caller goes on with the array the last call returned; what copy
\* and the operators return differs from the array in hand in the item at
\* most and is not followed further, nor is an array after it was renamed
Use ==
    /\ res.out.status = "ok"
    /\ res.op \notin {"DataArray", "use", "math", "unary", "copy", "name"}
    /\ da' = InHand(res.out.arr)
    /\ res' = Call("use", NoArray, <<>>, Ok(InHand(res.out.arr)))

\* the non-empty selectors of an axis of length n: one index or several
NonEmptySelectors(n) ==
    {IdxInt(i) : i \in 0..(n - 1)} \cup {IdxList(l) : l \in IndexLists(n) \ {<<>>}}

AxisLen(name) ==
    IF InSeq(name, da.dims) /\ IndexOf(name, da.dims) <= Rank
    THEN Len(da.ix[IndexOf(name, da.dims)]) ELSE 1

\* da.isel(x=a, y=b) on an array with a Grid2D geometry
IselXY ==
    /\ IsArray
    /\ da.geometry.kind = "Grid2D"
    /\ \E a \in NonEmptySelectors(AxisLen("x")) :
       \E b \in NonEmptySelectors(AxisLen("y")) :
           res' = Call("isel", da,
                       [idx |-> IdxNone, axis |-> AxInt(0), kwargs |-> <<Kw("x", a), Kw("y", b)>>],
                       isel(da, IdxNone, AxInt(0), <<Kw("x", a), Kw("y", b)>>))
    /\ UNCHANGED da

\* the components tried on an axis of length n: the full slice, the first
\* index, the empty list and the first two indices
KeyComponents(n) ==
    {KeyAll, IdxInt(0), IdxList(<<>>)} \cup {IdxList(<<0, 1>>) : k \in {2} \cap 1..n}

\* a stamp the time index holds and one it does not hold
TimeLabels == {Label(0), Label(MaxT)}

\* tuples of k components, one per axis in the order of the axes
KeyTuples(k) ==
    {c \in [1..k -> KeyComponents(2)] : \A j \in 1..k : c[j] \in KeyComponents(Len(da.ix[j]))}

\* tuples of integers with one component more than the array has axes:
\* increasing, decreasing and constant
LongIntTuples ==
    {[j \in 1..(Rank + 1) |-> IdxInt(j - 1)],
     [j \in 1..(Rank + 1) |-> IdxInt(Rank + 1 - j)],
     [j \in 1..(Rank + 1) |-> IdxInt(0)]}

\* tuples with a time label after the first component
LabelTuples == {<<Label(0), Label(1)>>, <<Label(MaxT), Label(0)>>, <<IdxInt(0), Label(0)>>}

Keys ==
    {Key("one", <<c>>) : c \in KeyComponents(IF Rank > 0 THEN Len(da.ix[1]) ELSE 1) \cup TimeLabels}
    \cup {Key("tuple", c) : c \in UNION {KeyTuples(k) : k \in 1..Rank}}
    \cup {Key("tuple", c) : c \in LongIntTuples \cup LabelTuples}

RECURSIVE Size(_)
Size(shape) == IF Len(shape) = 0 THEN 1 ELSE Head(shape) * Size(Tail(shape))

\* flat boolean masks of n cells: all true, all false, the first cell, the
\* last cell, every other cell, all cells but the first
Masks(n) ==
    {[p \in 1..n |-> TRUE], [p \in 1..n |-> FALSE], [p \in 1..n |-> p = 1],
     [p \in 1..n |-> p = n], [p \in 1..n |-> p % 2 = 1], [p \in 1..n |-> p # 1]}

\* da[mask] for a boolean numpy array of da's shape, and for the boolean
\* DataArray a comparison of da returned
GetItemMask ==
    /\ IsArray
    /\ \E mask \in Masks(Size(Shape(da.ix))) :
       \E from \in {"ndarray"} \cup {"DataArray" : k \in {compare(da, Scalar).status} \cap {"ok"}} :
           res' = Call("getitem", da, [key |-> Key("mask", mask), from |-> from],
                       getitem(da, Key("mask", mask)))
    /\ UNCHANGED da

\* da[key]
GetItem ==
    /\ IsArray
    /\ \E key \in Keys :
           res' = Call("getitem", da, [key |-> key, from |-> "key"], getitem(da, key))
    /\ UNCHANGED da

\* the permutation that undoes p
Inverse(p) == [i \in 1..Len(p) |-> (CHOOSE j \in 1..Len(p) : p[j] = i - 1) - 1]

\* permutations of the n positions of an axis: none moved, all reversed,
\* all rotated by one, the first two exchanged
AxisPermutations(n) ==
    {Iota(n), Reverse(Iota(n)), [i \in 1..n |-> i % n],
     [i \in 1..n |-> IF i = 1 THEN 1 ELSE IF i = 2 THEN 0 ELSE i - 1]}

\* self.isel(p, axis).isel(q, axis)
isel_twice(self, p, q, axis) ==
    Bind(isel(self, IdxList(p), axis, <<>>),
         LAMBDA first : IF first.status = "raise" THEN first
                        ELSE IF first.status = "none"
                        THEN Raise("AttributeError", "'NoneType' object has no attribute 'isel'")
                        ELSE isel(first.arr, IdxList(q), axis, <<>>))

\* da.isel(p, axis).isel(inverse of p, axis) for a permutation p of an
\* axis of at least two positions
IselRoundTrip ==
    /\ IsArray
    /\ \E i \in 0..(Rank - 1) :
       \E p \in AxisPermutations(Len(da.ix[i + 1])) :
           /\ Len(da.ix[i + 1]) >= 2
           /\ res' = Call("isel_twice", da, [p |-> p, axis |-> AxInt(i)],
                          isel_twice(da, p, Inverse(p), AxInt(i)))
    /\ UNCHANGED da

\* da.flipud()
Flipud ==
    /\ IsArray
    /\ LET out == flipud(da)
       IN /\ res' = Call("flipud", da, <<>>, out)
          /\ da' = IF out.status = "self" THEN out.arr ELSE da

\* da.values = value, for a buffer of the same shape with other rows and
\* for a buffer with a row less
SetValues ==
    /\ IsArray
    /\ Rank > 0
    /\ \E value \in {[da.ix EXCEPT ![1] = Reverse(@)], [da.ix EXCEPT ![1] = Tail(@)]} :
         LET out == values_setter(da, value)
         IN /\ res' = Call("values", da, [value |-> value],
                           IF out.status = "ok" THEN ReturnsNone ELSE Raise(out.exc, out.msg))
            /\ da' = IF out.status = "ok" THEN out.v ELSE da

\* da[i] = value and da[mask] = value for a mask that is true in row i
SetItem ==
    /\ IsArray
    /\ Rank > 0
    /\ \E i \in 0..(Len(da.ix[1]) - 1) :
       \E by \in {"key", "mask"} :
         /\ res' = Call("setitem", da, [by |-> by, row |-> i], ReturnsNone)
         /\ da' = setitem(da, i)

\* da.dropna(), for every set of time steps whose values are all NaN
Dropna ==
    /\ IsArray
    /\ \E all_nan \in SUBSET (0..((IF Rank > 0 THEN Len(da.ix[1]) ELSE 1) - 1)) :
           res' = Call("dropna", da, [all_nan |-> all_nan], dropna(da, all_nan))
    /\ UNCHANGED da

\* the index sequences find_index returns for an axis of n cells
FoundIdx(n) ==
    {IdxNone, IdxList(<<>>), IdxList(<<0>>)} \cup {IdxList(<<0, 1>>) : k \in {2} \cap 1..n}

\* what geometry.find_index returns for the criteria given to sel
Found ==
    {NotAsked}
    \cup (IF da.geometry.kind = "Grid2D"
          THEN {Pair(ii, jj) : ii \in FoundIdx(da.geometry.nx), jj \in FoundIdx(da.geometry.ny)}
          ELSE {})
    \cup (IF da.geometry.kind \in {"Grid1D", "FM", "FMLayered"}
          THEN {Flat(idx) : idx \in FoundIdx(IF da.geometry.kind = "Grid1D" THEN da.geometry.nx
                                         ELSE n_elements(da.geometry)) \ {IdxNone}}
          ELSE {})

\* da.sel(time=..., **criteria)
Sel ==
    /\ IsArray
    /\ \E found \in Found :
       \E time \in {IdxNone, IdxInt(0), IdxList(<<>>), IdxList(<<0>>), Label(0)} :
           res' = Call("sel", da, [time |-> time, found |-> found], sel(da, time, found))
    /\ UNCHANGED da

\* da.isel(x=[], y=b) on an array with a Grid2D geometry
IselXYEmpty ==
    /\ IsArray
    /\ da.geometry.kind = "Grid2D"
    /\ \E b \in NonEmptySelectors(AxisLen("y")) :
           res' = Call("isel", da,
                       [idx |-> IdxNone, axis |-> AxInt(0),
                        kwargs |-> <<Kw("x", IdxList(<<>>)), Kw("y", b)>>],
                       isel(da, IdxNone, AxInt(0), <<Kw("x", IdxList(<<>>)), Kw("y", b)>>))
    /\ UNCHANGED da

\* a buffer whose inner rows are others and whose ends are the same
InnerChanged(ix) ==
    [a \in 1..Len(ix) |->
        [i \in 1..Len(ix[a]) |-> IF 1 < i /\ i < Len(ix[a]) THEN Overwritten ELSE ix[a][i]]]

\* the arrays da is compared with: an equal one, one with other values,
\* and arrays that differ from it in the start time, the type of the
\* geometry, the elements of the geometry, the elevation (its absence, its
\* inner values), the dims, the number of time steps or the shape
Others ==
    {da,
     NotADataArray,
     [da EXCEPT !.time = [i \in 1..Len(da.time) |-> da.time[i] + 1]],
     [da EXCEPT !.geometry = IF da.geometry.kind = "Undefined" THEN Grid3D
                             ELSE GeometryUndefined,
                !.zn = NoneZn],
     [da EXCEPT !.geometry.elems = Reverse(da.geometry.elems)]}
    \cup (IF IsLayered(da.geometry)
          THEN {[da EXCEPT !.zn = IF da.zn.some THEN NoneZn
                                  ELSE SomeZn(Buffer(<<Len(da.time), n_nodes(da.geometry)>>))],
                [da EXCEPT !.zn.ix = InnerChanged(da.zn.ix)]}
          ELSE {})
    \cup (IF Len(da.dims) > 0 /\ da.dims[Len(da.dims)] # "time"
          THEN {[da EXCEPT !.dims[Len(da.dims)] = "z"]} ELSE {})
    \cup (IF Rank > 0 THEN {[da EXCEPT !.ix[1] = Reverse(@)]} ELSE {})
    \cup (IF Rank > 0 /\ Len(da.dims) > 0 /\ da.dims[1] = "time" /\ ~da.zn.some
          THEN {[da EXCEPT !.time = @ \o <<@[Len(@)] + 1>>,
                           !.ix[1] = @ \o <<Len(@)>>]}
          ELSE {})
    \cup (IF Rank > 0 /\ Len(da.dims) > 0 /\ da.dims[1] # "time"
             /\ da.geometry.kind \in {"Undefined", "Grid3D", "PointSpectrum"}
          THEN {[da EXCEPT !.ix[1] = @ \o <<Len(@)>>]}
          ELSE {})

\* da._is_compatible(other, raise_error)
IsCompatible ==
    /\ IsArray
    /\ \E other \in Others :
       \E raise_error \in BOOLEAN :
           res' = Call("is_compatible", da, [other |-> other, raise_error |-> raise_error],
                       is_compatible(da, other, raise_error))
    /\ UNCHANGED da

Next ==
    \/ Isel \/ IselKw \/ IselMixed \/ IselXY \/ Squeeze \/ Aggregate \/ Quantile
    \/ Compare \/ Math \/ UnaryMath \/ Copy \/ InterpTime \/ SetName \/ Use
    \/ IsCompatible \/ IselXYEmpty \/ GetItem \/ GetItemMask \/ IselRoundTrip \/ Flipud \/ SetValues \/ SetItem \/ Dropna \/ Sel

Spec == Init /\ [][Next]_vars

-----------------------------------------------------------------------------
(* Properties of construction, checked under SpecCtor *)

Constructed == res.op = "DataArray"

Failed == res.out.status = "raise" /\ res.out.arr = NoArray /\ da = NoArray

HasSize(g) == g.kind \in {"Grid1D", "Grid2D", "FM", "FMLayered"}

\* the element / node / grid-point count the data axis at the spatial offset
\* is checked against
SpatialSize(g) ==
    IF g.kind = "Grid1D" THEN g.nx
    ELSE IF g.kind = "Grid2D" THEN g.ny
    ELSE n_elements(g)

DimErrors ==
    {"Number of named dimensions does not equal data ndim",
     "time must be first dimension if present!",
     "time missing from named dimensions",
     "Number of timesteps does not fit with data shape"}

GeometryErrors ==
    {"data shape does not match number of elements",
     "data shape does not match number of grid points",
     "data shape does not match ny",
     "data shape does not match nx"}

\* C1 as stated: dims not given, a buffer of rank r >= 1, a time index that is
\* time-invariant or as long as the first axis, and a grid or mesh geometry
\* whose size matches shape[offset] (offset = 1 iff there is more than one
\* step; a Grid2D matches on both axes): construction succeeds with
\* len(dims) = r, and dims[0] = "time" iff the multi-step time axis is present.
C1_Matches(a) ==
    LET off == IF a.nt > 1 THEN 1 ELSE 0
    IN /\ ~a.dims.some /\ ~a.zn.some
       /\ a.geometry.kind \in {"Grid1D", "Grid2D", "FM"}
       /\ Len(a.shape) > off
       /\ a.nt > 1 => a.shape[1] = a.nt
       /\ a.shape[off + 1] = SpatialSize(a.geometry)
       /\ a.geometry.kind = "Grid2D" =>
              (Len(a.shape) > off + 1 /\ a.shape[off + 2] = a.geometry.nx)

C1_GuessedDimsMatchRank ==
    (Constructed /\ C1_Matches(res.args)) =>
        /\ res.out.status = "ok"
        /\ Len(da.dims) = Len(res.args.shape)
        /\ (Len(da.dims) > 0 /\ da.dims[1] = "time") <=> (res.args.nt > 1)

\* the dims the constructor settles on before it looks at the geometry
SettledDims(a) ==
    LET d1 == parse_dims(a.dims, a.geometry, a.shape, a.nt)
    IN IF d1.status # "ok" THEN d1
       ELSE check_time_data_length(d1.v, TimeIndex(a.nt), a.shape)

\* the geometry has a size and it differs from the data size at the spatial
\* axis offset (0 if no time axis, else 1)
C4_SizeDiffers(a) ==
    /\ HasSize(a.geometry)
    /\ LET d == parse_dims(a.dims, a.geometry, a.shape, a.nt)
       IN /\ d.status = "ok"
          /\ d.v # <<"time">>
          /\ LET off == IF InSeq("time", d.v) THEN 1 ELSE 0
             IN /\ Len(a.shape) > off
                /\ a.shape[off + 1] # SpatialSize(a.geometry)

\* C4 as stated: a geometry size that differs from the data size at the
\* spatial axis offset makes construction fail with a ValueError.
C4_MismatchIsValueError ==
    (Constructed /\ C4_SizeDiffers(res.args)) =>
        (Failed /\ res.out.exc = "ValueError")

\* C4, amended: for a Grid1D, Grid2D or flexible-mesh geometry whose size
\* differs from the data size at the spatial axis offset, construction fails
\* and returns no array; the error is the AssertionError of the geometry
\* check, unless the time-length check before it already raised ValueError.
C4_MismatchIsAssertionError ==
    (Constructed /\ C4_SizeDiffers(res.args)) =>
        /\ Failed
        /\ IF SettledDims(res.args).status = "ok"
           THEN res.out.exc = "AssertionError" /\ res.out.msg \in GeometryErrors
           ELSE res.out.exc = "ValueError" /\ res.out.msg \in DimErrors

C4_Witness ==
    /\ Constructed /\ C4_SizeDiffers(res.args)
    /\ res.args.geometry.kind = "Grid2D"
    /\ InSeq("time", SettledDims(res.args).v)
    /\ res.out.exc = "AssertionError"

\* the four ways explicit dims are rejected
C5_Rejected(a) ==
    LET d == a.dims.v
    IN \/ Len(d) # Len(a.shape)
       \/ (InSeq("time", d) /\ d[1] # "time")
       \/ (a.nt > 1 /\ ~InSeq("time", d))
       \/ (InSeq("time", d) /\ Len(a.shape) > 0 /\ a.nt # a.shape[1])

\* C5: with dims given, construction fails with a dimension ValueError in
\* exactly the four cases (rank differs, time not first, several steps and no
\* time, time present and len(time) # shape[0]); otherwise an array that is
\* returned stores dims as given.
C5_ExplicitDims ==
    (Constructed /\ res.args.dims.some) =>
        /\ C5_Rejected(res.args) <=>
              (Failed /\ res.out.exc = "ValueError" /\ res.out.msg \in DimErrors)
        /\ (res.out.status = "ok") => (da.dims = res.args.dims.v)

C5_Witness ==
    /\ Constructed /\ res.args.dims.some
    /\ Len(res.args.dims.v) = Len(res.args.shape)
    /\ res.args.nt > 1
    /\ ~InSeq("time", res.args.dims.v)
    /\ Failed /\ res.out.exc = "ValueError"

\* the same construction without the elevation
WithoutZn(a) == [a EXCEPT !.zn = NoneZn]

C6_ZnFits(a) ==
    LET zshape == Shape(a.zn.ix)
    IN /\ Len(zshape) > 0
       /\ zshape[Len(zshape)] = n_nodes(a.geometry)
       /\ a.nt > 1 => zshape[1] = a.nt

\* C6: with zn given, a geometry that is not a layered mesh is rejected with
\* ValueError; with a layered mesh zn is accepted exactly if its last axis
\* has n_nodes entries and, for more than one step, its first axis has
\* n_timesteps entries; a rejected construction returns no array.  (Stated
\* for inputs the constructor accepts without zn, so that zn decides.)
C6_ZnValidation ==
    (Constructed /\ res.args.zn.some) =>
        /\ ~IsLayered(res.args.geometry) => Failed
        /\ res.out.status = "ok" => (C6_ZnFits(res.args) /\ da.zn = res.args.zn)
        /\ res.out.status # "ok" => Failed
        /\ Construct(WithoutZn(res.args)).status = "ok" =>
              /\ ~IsLayered(res.args.geometry) =>
                    /\ res.out.exc = "ValueError"
                    /\ res.out.msg = "zn can only be provided for layered dfsu data"
              /\ IsLayered(res.args.geometry) =>
                    (res.out.status = "ok" <=> C6_ZnFits(res.args))

C6_Witness ==
    /\ Constructed /\ res.args.zn.some
    /\ IsLayered(res.args.geometry)
    /\ res.args.nt > 1
    /\ Len(res.args.zn.ix) = 2
    /\ Len(res.args.zn.ix[1]) = res.args.nt
    /\ Len(res.args.zn.ix[2]) # n_nodes(res.args.geometry)
    /\ Construct(WithoutZn(res.args)).status = "ok"
    /\ Failed /\ res.out.exc = "ValueError"

\* dims were left to be guessed and the array was constructed
Guessed == Constructed /\ ~res.args.dims.some /\ res.out.status = "ok"

\* the number of axes of the constructed array that are not time
NonTimeAxes == Len(da.dims) - (IF Len(da.dims) > 0 /\ da.dims[1] = "time" THEN 1 ELSE 0)

\* the last n names of dims
LastDims(n) == SubSeq(da.dims, Len(da.dims) - n + 1, Len(da.dims))

SpaceName == IF res.args.geometry.kind = "LineSpectrum" THEN "node" ELSE "element"

\* C27 as stated: the guessed dims of a spectral point geometry with two
\* axes that are not time end with ("frequency", "direction"), those of a
\* spectral mesh with three axes that are not time end with (element or
\* node, "frequency", "direction").
C27_GuessedSpectralDims ==
    Guessed =>
        /\ (res.args.geometry.kind = "PointSpectrum" /\ NonTimeAxes = 2) =>
              LastDims(2) = <<"frequency", "direction">>
        /\ (IsSpectralFM(res.args.geometry) /\ NonTimeAxes = 3) =>
              LastDims(3) = <<SpaceName, "frequency", "direction">>

\* C27, amended: the guessed dims of a spectral point geometry with two
\* axes that are not time end with ("direction", "frequency"), those of a
\* spectral mesh with three axes that are not time end with (element or
\* node, "direction", "frequency").
C27_GuessedSpectralDimsDirectionFirst ==
    Guessed =>
        /\ (res.args.geometry.kind = "PointSpectrum" /\ NonTimeAxes = 2) =>
              LastDims(2) = <<"direction", "frequency">>
        /\ (IsSpectralFM(res.args.geometry) /\ NonTimeAxes = 3) =>
              LastDims(3) = <<SpaceName, "direction", "frequency">>

C27_Witness ==
    /\ Guessed
    /\ res.args.geometry.kind = "LineSpectrum"
    /\ da.dims = <<"node", "direction", "frequency">>

-----------------------------------------------------------------------------
(* Properties of the operations, checked under Spec *)

\* an operation returned an array
Returned == res.op \notin {"DataArray", "use"} /\ res.out.status = "ok"

TimeOffset(a) == IF Len(a.dims) > 0 /\ a.dims[1] = "time" THEN 1 ELSE 0

\* the data / dims / time / geometry agreement of an array: len(dims) is the
\* rank, "time" is first or absent, len(time) is shape[0] under a time axis,
\* and a geometry with a size has it on the first spatial axis
Matched(a) ==
    /\ Len(a.dims) = Len(a.ix)
    /\ \A i \in 2..Len(a.dims) : a.dims[i] # "time"
    /\ TimeOffset(a) = 1 => Len(a.time) = Len(a.ix[1])
    /\ HasSize(a.geometry) =>
          /\ Len(a.ix) > TimeOffset(a)
          /\ Len(a.ix[TimeOffset(a) + 1]) = SpatialSize(a.geometry)

\* C2 as stated, for the operations isel, squeeze, aggregate, quantile,
\* arithmetic and comparison: an operation applied to an array whose data,
\* dims, time and geometry agree returns, when it returns an array, one in
\* which they agree again.
C2_OperationsKeepMatched ==
    (Returned /\ Matched(res.self)) => Matched(res.out.arr)

\* the other operand leaves the shape of the left one as it is
C3_KeepsShape ==
    /\ Broadcastable(Shape(res.self.ix), res.args.other.shape)
    /\ BroadcastShape(Shape(res.self.ix), res.args.other.shape) = Shape(res.self.ix)

\* C3 as stated: a comparison of a left operand array (with explicit dims,
\* with a collapsed time axis, 0-dimensional) returns a boolean array whose
\* dims, geometry and shape are the left operand's.
C3_ComparisonClosure ==
    (res.op = "compare" /\ C3_KeepsShape) =>
        /\ res.out.status = "ok"
        /\ res.out.arr.dtype = "bool"
        /\ res.out.arr.dims = res.self.dims
        /\ res.out.arr.geometry = res.self.geometry
        /\ Shape(res.out.arr.ix) = Shape(res.self.ix)

\* the index argument and the axis argument of an isel call, positional or
\* by keyword
IselIdx == IF res.args.kwargs # <<>> THEN res.args.kwargs[1].idx ELSE res.args.idx

IselAxisArg ==
    IF res.args.kwargs # <<>> THEN AxName(res.args.kwargs[1].name) ELSE res.args.axis

\* the position (from 1) of the axis the call selects on
IselAxis ==
    IF IselAxisArg.k = "int" THEN IselAxisArg.i + 1
    ELSE IF IselAxisArg.n = "time" THEN 1
    ELSE IndexOf(IselAxisArg.n, res.self.dims)

\* the resolved index set of the call, as the list of positions (from 0)
IselIndices ==
    IF IselIdx.k # "slice" THEN IselIdx.v
    ELSE LET n == Len(res.self.ix[IselAxis])
             lo == IF IselIdx.v[1] < n THEN IselIdx.v[1] ELSE n
             hi == IF IselIdx.v[2] < n THEN IselIdx.v[2] ELSE n
         IN [k \in 1..(IF hi > lo THEN hi - lo ELSE 0) |-> lo + k - 1]

\* an isel call on one axis of the data
IselCall ==
    /\ res.op = "isel"
    /\ \/ res.args.kwargs = <<>>
       \/ /\ Len(res.args.kwargs) = 1
          /\ res.args.idx.k = "none"
          /\ InSeq(res.args.kwargs[1].name, res.self.dims)
    /\ IselAxis <= Len(res.self.ix)

IselOnTime == IselAxis = 1 /\ TimeOffset(res.self) = 1

\* s without its k-th entry
Without(s, k) == [i \in 1..(Len(s) - 1) |-> IF i < k THEN s[i] ELSE s[i + 1]]

IsScenarioA ==
    /\ res.self = Construct(ScenarioA).arr
    /\ res.args = [idx |-> IdxInt(0), axis |-> AxName("time"), kwargs |-> <<>>]

\* C7: an isel call with a non-empty resolved index never returns None; on
\* an array whose parts agree (a layered mesh with its two-dimensional
\* elevation) it returns an array; in the array returned the axis is gone
\* from dims and from the shape when one index was resolved, and is kept in
\* dims with the number of indices as its length when there are several.
\* Scenario A: dims ("time", "x"), 5 steps, shape (5, 3), isel(0, axis="time")
\* gives dims ("x",), shape (3,) and a time of length 1.
C7_IselCollapseRule ==
    (IselCall /\ Len(IselIndices) > 0) =>
        /\ res.out.status # "none"
        /\ (Matched(res.self)
              /\ (IsLayered(res.self.geometry) => Len(res.self.zn.ix) = 2))
           => res.out.status = "ok"
        /\ (res.out.status = "ok" /\ Len(IselIndices) = 1) =>
              /\ Shape(res.out.arr.ix) = Without(Shape(res.self.ix), IselAxis)
              /\ IselAxis <= Len(res.self.dims) =>
                    res.out.arr.dims = Without(res.self.dims, IselAxis)
        /\ (res.out.status = "ok" /\ Len(IselIndices) > 1) =>
              /\ res.out.arr.dims = res.self.dims
              /\ Shape(res.out.arr.ix) =
                    [Shape(res.self.ix) EXCEPT ![IselAxis] = Len(IselIndices)]
        /\ IsScenarioA =>
              /\ res.out.status = "ok"
              /\ res.out.arr.dims = <<"x">>
              /\ Shape(res.out.arr.ix) = <<3>>
              /\ Len(res.out.arr.time) = 1

C7_Witness ==
    /\ IselCall /\ IsScenarioA
    /\ res.out.status = "ok"
    /\ res.out.arr.dims = <<"x">>

\* the source elevation at the positions idx of its leading axis
C8_ZnAt(zn, idx) ==
    IF ~zn.some THEN NoneZn
    ELSE IF Len(idx) = 1 THEN SomeZn(Tail(zn.ix))
    ELSE SomeZn([zn.ix EXCEPT ![1] = [k \in 1..Len(idx) |-> zn.ix[1][idx[k] + 1]]])

\* C8: isel on the time axis returns the source time at the selected
\* positions, the source geometry, and the source elevation indexed by the
\* same positions on its leading axis (None if there is none); isel on
\* another axis returns the source time unchanged.
C8_IselTimeAxis ==
    (IselCall /\ res.out.status = "ok") =>
        IF IselOnTime
        THEN /\ res.out.arr.time =
                    [k \in 1..Len(IselIndices) |-> res.self.time[IselIndices[k] + 1]]
             /\ res.out.arr.geometry = res.self.geometry
             /\ res.out.arr.zn = C8_ZnAt(res.self.zn, IselIndices)
        ELSE res.out.arr.time = res.self.time

C8_Witness ==
    /\ IselCall /\ res.out.status = "ok" /\ IselOnTime
    /\ IsLayered(res.self.geometry)
    /\ res.self.zn.some
    /\ Len(res.self.time) > 1
    /\ IselIndices = <<1>>
    /\ res.out.arr.time = <<1>>
    /\ Len(res.out.arr.zn.ix) = 1

\* the elements an isel call on the element axis selects
C9_Selected == [k \in 1..Len(IselIndices) |-> res.self.geometry.elems[IselIndices[k] + 1]]

\* a layered-mesh array with elevation of shape (n_timesteps, n_nodes), and
\* several indices on its element axis
C9_Case ==
    /\ IselCall
    /\ IsLayered(res.self.geometry)
    /\ Matched(res.self)
    /\ res.self.zn.some
    /\ Shape(res.self.zn.ix) = <<Len(res.self.time), n_nodes(res.self.geometry)>>
    /\ IselAxis <= Len(res.self.dims)
    /\ res.self.dims[IselAxis] = "element"
    /\ Len(IselIndices) > 1

\* the distinct nodes the selected elements refer to
C9_Nodes == UNION {ElementNodes(C9_Selected[k]) : k \in 1..Len(C9_Selected)}

C9_OneLayer ==
    \A i, j \in 1..Len(C9_Selected) : C9_Selected[i] % MeshLayers = C9_Selected[j] % MeshLayers

\* the columns (from 1) of the source elevation that belong to those nodes
C9_Columns ==
    LET nodes == GeometryNodes(res.self.geometry)
    IN SortedSeq({p \in 1..Len(nodes) : nodes[p] \in C9_Nodes})

\* C9 as stated: the array returned has a geometry of as many elements as
\* indices and an elevation of shape (n_timesteps, k), k the number of
\* distinct nodes of the selected elements.
C9_ElevationOfSelection ==
    C9_Case =>
        /\ res.out.status = "ok"
        /\ n_elements(res.out.arr.geometry) = Len(IselIndices)
        /\ res.out.arr.zn.some
        /\ Shape(res.out.arr.zn.ix) = <<Len(res.self.time), Cardinality(C9_Nodes)>>

\* C9, amended: the array returned has a geometry of as many elements as
\* indices; when the selected elements span several layers the geometry is
\* layered and the elevation has shape (n_timesteps, k), holding for each
\* step the columns of the k distinct nodes of the selected elements; when
\* they all lie in one layer the geometry is a flat mesh and the array has
\* no elevation.
C9_ElevationOfLayeredSelection ==
    C9_Case =>
        /\ res.out.status = "ok"
        /\ n_elements(res.out.arr.geometry) = Len(IselIndices)
        /\ IF C9_OneLayer
           THEN ~IsLayered(res.out.arr.geometry) /\ res.out.arr.zn = NoneZn
           ELSE /\ IsLayered(res.out.arr.geometry)
                /\ res.out.arr.zn.some
                /\ Shape(res.out.arr.zn.ix) = <<Len(res.self.time), Cardinality(C9_Nodes)>>
                /\ Cardinality(C9_Nodes) = n_nodes(res.out.arr.geometry)
                /\ res.out.arr.zn.ix[1] = res.self.zn.ix[1]
                /\ \A k \in 1..Len(C9_Columns) :
                      res.out.arr.zn.ix[2][k] = res.self.zn.ix[2][C9_Columns[k]]

C9_Witness ==
    /\ C9_Case /\ ~C9_OneLayer
    /\ res.out.status = "ok"
    /\ Cardinality(C9_Nodes) < n_nodes(res.self.geometry)
    /\ Shape(res.out.arr.zn.ix) = <<Len(res.self.time), Cardinality(C9_Nodes)>>

\* C10: isel whose resolved index set is empty (idx None, an empty sequence,
\* a slice that selects nothing on the axis) returns None, raises nothing and
\* leaves the source array as it was.
C10_EmptyIselReturnsNone ==
    (IselCall /\ (IselIdx.k = "none" \/ (IselIdx.k # "int" /\ Len(IselIndices) = 0))) =>
        /\ res.out.status = "none"
        /\ res.out.arr = NoArray
        /\ da = res.self

C10_Witness ==
    /\ IselCall
    /\ IselIdx.k = "slice" /\ IselIdx.v[1] < IselIdx.v[2] /\ Len(IselIndices) = 0
    /\ res.out.status = "none"
    /\ da = res.self /\ Matched(da)

\* the names the keywords of an isel call give, in order
KwNamesOf(kwargs) == [k \in 1..Len(kwargs) |-> kwargs[k].name]

AllKwInDims == \A k \in 1..Len(res.args.kwargs) : InSeq(res.args.kwargs[k].name, res.self.dims)

\* x and y together on a Grid2D geometry
IsGrid2DPair ==
    /\ res.self.geometry.kind = "Grid2D"
    /\ Range(KwNamesOf(res.args.kwargs)) = {"x", "y"}

NoArrayReturned == res.out.status = "raise" /\ res.out.arr = NoArray

\* C11 as stated: a positional index together with a keyword that names a
\* dim, and keywords that name two different dims (other than x and y
\* together on a Grid2D), raise NotImplementedError and return no array; a
\* keyword that names no dim raises ValueError.
C11_OneAxisPerCall ==
    res.op = "isel" =>
        /\ (res.args.idx.k # "none" /\ Len(res.args.kwargs) > 0 /\ AllKwInDims) =>
              (NoArrayReturned /\ res.out.exc = "NotImplementedError")
        /\ (res.args.idx.k = "none" /\ Len(res.args.kwargs) = 2 /\ AllKwInDims
              /\ ~IsGrid2DPair) =>
              (NoArrayReturned /\ res.out.exc = "NotImplementedError")
        /\ (res.args.idx.k = "none" /\ Len(res.args.kwargs) = 1 /\ ~AllKwInDims) =>
              (NoArrayReturned /\ res.out.exc = "ValueError")

\* isel(first=a) then isel(second=b), each call with one keyword
IselThen(self, first, a, second, b) ==
    LET f == isel_one(self, IdxNone, AxInt(0), <<Kw(first, a)>>)
    IN IF f.status = "raise" THEN f
       ELSE IF f.status = "none"
       THEN Raise("AttributeError", "'NoneType' object has no attribute 'isel'")
       ELSE isel_one(f.arr, IdxNone, AxInt(0), <<Kw(second, b)>>)

\* two calls end the same way, and return the same dims, shape and values
SameSelection(o, p) ==
    /\ o.status = p.status
    /\ o.status = "raise" => o.exc = p.exc
    /\ o.status = "ok" =>
          /\ o.arr.dims = p.arr.dims
          /\ Shape(o.arr.ix) = Shape(p.arr.ix)
          /\ o.arr.ix = p.arr.ix
          /\ o.arr.dtype = p.arr.dtype

\* isel(x=a, y=b) with non-empty selectors on a Grid2D array
IselXYCall ==
    /\ res.op = "isel"
    /\ res.self.geometry.kind = "Grid2D"
    /\ res.args.idx.k = "none"
    /\ Len(res.args.kwargs) = 2
    /\ res.args.kwargs[1].name = "x" /\ res.args.kwargs[2].name = "y"
    /\ res.args.kwargs[1].idx.k \in {"int", "list"} /\ Len(res.args.kwargs[1].idx.v) > 0
    /\ res.args.kwargs[2].idx.k \in {"int", "list"} /\ Len(res.args.kwargs[2].idx.v) > 0

\* C12: on an array with a Grid2D geometry isel(x=a, y=b) returns the same
\* dims, shape and values as isel(x=a) followed by isel(y=b), and as
\* isel(y=b) followed by isel(x=a), for every pair of non-empty selectors.
C12_IselXYIsSequential ==
    IselXYCall =>
        LET a == res.args.kwargs[1].idx
            b == res.args.kwargs[2].idx
        IN /\ SameSelection(res.out, IselThen(res.self, "x", a, "y", b))
           /\ SameSelection(res.out, IselThen(res.self, "y", b, "x", a))

\* x and y selected together, several columns and one row, from a grid
\* with more than one row and column
C12_Witness ==
    /\ IselXYCall
    /\ res.out.status = "ok"
    /\ res.args.kwargs[1].idx.k = "list" /\ Len(res.args.kwargs[1].idx.v) > 1
    /\ res.args.kwargs[2].idx.k = "int"
    /\ res.self.geometry.ny > 1
    /\ InSeq("x", res.out.arr.dims) /\ ~InSeq("y", res.out.arr.dims)

\* the axes an aggregation reduces, as resolved from its axis argument
AggAxis == parse_axis(Shape(res.self.ix), res.self.dims, res.args.axis)

\* aggregate or quantile over axes the array has
AggCall(op) ==
    /\ res.op = op
    /\ AggAxis.status = "ok"
    /\ Len(AggAxis.v.ax) > 0
    /\ ReducibleAxes(res.self.ix, AggAxis.v)
    /\ \A i \in 1..Len(AggAxis.v.ax) : AggAxis.v.ax[i] + 1 <= Len(res.self.dims)

\* the one reduced axis is the time axis
AggOnTime ==
    /\ ~AggAxis.v.multi
    /\ res.self.dims[AggAxis.v.ax[1] + 1] = "time"

\* C13: aggregate keeps the geometry and the elevation exactly when the
\* reduced axis is the time axis; reducing a spatial axis or a tuple of
\* axes, integer axis 0 of an array without a time axis included, returns an
\* array with undefined geometry and no elevation.
C13_AggregateKeepsGeometryOnTimeOnly ==
    AggCall("aggregate") =>
        /\ Returned
        /\ IF AggOnTime
           THEN /\ res.out.arr.geometry = res.self.geometry
                /\ res.out.arr.zn.some = res.self.zn.some
           ELSE /\ res.out.arr.geometry = GeometryUndefined
                /\ ~res.out.arr.zn.some

\* the positions (1-based) of the source's dims that are not reduced, in order
AggKept ==
    SortedSeq({i \in 1..Len(res.self.dims) : (i - 1) \notin Range(AggAxis.v.ax)})

\* C14: the array aggregate returns has one dims entry less than the source
\* for a single axis and len(axis) entries less for a tuple of axes
\* (axis="space"); the names removed are those of the reduced axes and the
\* names that remain keep their order.
C14_AggregateDims ==
    (AggCall("aggregate") /\ Returned) =>
        /\ Len(res.out.arr.dims) =
              Len(res.self.dims) - (IF AggAxis.v.multi THEN Len(AggAxis.v.ax) ELSE 1)
        /\ Len(res.out.arr.dims) = Len(AggKept)
        /\ \A i \in 1..Len(AggKept) : res.out.arr.dims[i] = res.self.dims[AggKept[i]]
        /\ Len(res.out.arr.ix) = Len(res.out.arr.dims)

\* both spatial axes of a grid with a time axis reduced together
C14_Witness ==
    /\ AggCall("aggregate")
    /\ Returned
    /\ res.args.axis = AxName("space")
    /\ Len(AggAxis.v.ax) = 2
    /\ res.self.dims = <<"time", "y", "x">>
    /\ res.out.arr.dims = <<"time">>

\* the time axis is among the reduced axes
AggReducesTime ==
    \E i \in 1..Len(AggAxis.v.ax) : res.self.dims[AggAxis.v.ax[i] + 1] = "time"

\* C15: the array aggregate returns has a time of length 1, the first
\* instant of the source, when the time axis is among the reduced axes, and
\* the time of the source unchanged otherwise.
C15_AggregateTime ==
    (AggCall("aggregate") /\ Returned) =>
        IF AggReducesTime
        THEN res.out.arr.time = <<res.self.time[1]>>
        ELSE res.out.arr.time = res.self.time

\* an array without a time axis carries one instant only: the constructor
\* rejects or re-guesses anything else (lines 739-742, 748-749)
TimelessHasOneInstant ==
    (da # NoArray /\ ~InSeq("time", da.dims)) => Len(da.time) = 1

\* the time axis of several steps reduced, alone or with the spatial axes
C15_Witness ==
    /\ AggCall("aggregate")
    /\ Returned
    /\ AggReducesTime
    /\ Len(res.self.time) > 1
    /\ Len(res.self.dims) > 1
    /\ res.out.arr.time = <<res.self.time[1]>>

\* C16: quantile (and nanquantile) with a scalar level behaves like
\* aggregate over the same axis: for every array, with or without
\* elevation, and every valid axis (time, one spatial axis, "space") it
\* returns an array with the dims, time, geometry and elevation aggregate
\* returns.
C16_QuantileLikeAggregate ==
    AggCall("quantile") =>
        LET agg == aggregate(res.self, res.args.axis)
        IN /\ (res.out.status = "ok") = (agg.status = "ok")
           /\ res.out.status = "ok" =>
                 /\ res.out.arr.dims = agg.arr.dims
                 /\ res.out.arr.time = agg.arr.time
                 /\ res.out.arr.geometry = agg.arr.geometry
                 /\ res.out.arr.zn = agg.arr.zn

\* a binary or unary operator was applied
MathCall == res.op \in {"math", "unary"}

Incompatible ==
    \/ res.args.other.k = "str"
    \/ ~Broadcastable(Shape(res.self.ix), res.args.other.shape)

\* the operands broadcast to another shape than that of the left operand
BroadcastsLarger ==
    /\ ~Incompatible
    /\ BroadcastShape(Shape(res.self.ix), res.args.other.shape) # Shape(res.self.ix)

CouldNotBeApplied == "Math operation could not be applied to DataArray"

\* C18 as stated: every failed binary operation, an operand that broadcasts
\* to a larger shape included, fails with a ValueError that reports that the
\* math operation could not be applied, and returns no array.
C18_FailureIsCouldNotBeApplied ==
    (res.op = "math" /\ (Incompatible \/ BroadcastsLarger)) =>
        /\ res.out.status = "raise"
        /\ res.out.exc = "ValueError"
        /\ res.out.msg = CouldNotBeApplied
        /\ res.out.arr = NoArray

\* name, type and unit of an item, whichever object it is
ItemContent(item) == <<item.name, item.type, item.unit>>

\* a subtraction between two DataArrays of the same type and unit
SubtractsSameEUM ==
    /\ res.args.txt = "-"
    /\ res.args.other.k = "DataArray"
    /\ res.args.other.item.type = res.self.item.type
    /\ res.args.other.item.unit = res.self.item.unit

\* the item of undefined type named "<left name> <op> <right name>"
IsCompositeItem(right) ==
    /\ res.out.arr.item.type = "Undefined"
    /\ res.out.arr.item.name = res.self.item.name \o <<res.args.txt>> \o right

C20_DerivedItemIsSeparate ==
    (res.op = "name" /\ res.args.by # "compare") =>
        /\ res.args.of = "derived" => da.item.name = res.self.item.name
        /\ res.args.of = "source" => res.out.arr.item.name = res.args.was

\* the operations that are said to leave the receiver alone
PureOps ==
    {"isel", "sel", "getitem", "aggregate", "quantile", "squeeze", "copy", "dropna",
     "math", "unary", "compare"}

\* C21: isel, sel, __getitem__, aggregate, quantile, squeeze, copy, dropna
\* and the arithmetic and comparison operators leave the receiver as it was
\* and, when they return an array, return a new instance and not the
\* receiver itself; only the values setter, __setitem__ and flipud change
\* the receiver's buffer.
C21_OnlyThreeOperationsMutate ==
    /\ res.op \in PureOps => (da = res.self /\ res.out.status # "self")
    /\ (res.op \notin {"DataArray", "use", "name"} /\ da.ix # res.self.ix) =>
          res.op \in {"values", "setitem", "flipud"}

\* da[mask] was called with a mask of da's shape
MaskCall == res.op = "getitem" /\ is_boolean_mask(res.args.key)

\* the number of true entries of mask among its first p
TrueUpTo(mask, p) == Cardinality({q \in 1..p : mask[q]})

\* C22: for a boolean mask of the array's shape (a numpy array or a boolean
\* DataArray), arr[mask] returns a 1-D result that holds exactly the values
\* at the positions where the mask is true, in the original flat order, and
\* leaves arr unchanged.
C22_MaskSelection ==
    MaskCall =>
        LET mask == res.args.key.c
            cells == FlatCells(res.self.ix)
        IN /\ res.out.status = "data"
           /\ da = res.self
           /\ Len(res.out.data) = TrueUpTo(mask, Len(mask))
           /\ \A k \in 1..Len(res.out.data) :
                 \E p \in 1..Len(mask) :
                     mask[p] /\ TrueUpTo(mask, p) = k /\ res.out.data[k] = cells[p]

C22_Witness ==
    /\ MaskCall
    /\ res.args.from = "DataArray"
    /\ Len(res.self.ix) = 2
    /\ Len(res.args.key.c) > 2
    /\ Len(res.out.data) = 2
    /\ ~res.args.key.c[1]

\* C23: for an axis of at least two positions and a permutation p of them,
\* arr.isel(p, axis).isel(inverse of p, axis) has the dims, the shape and
\* the values, in the original order, of arr.
C23_PermutationRoundTrip ==
    res.op = "isel_twice" =>
        /\ res.out.status = "ok"
        /\ res.out.arr.dims = res.self.dims
        /\ Shape(res.out.arr.ix) = Shape(res.self.ix)
        /\ res.out.arr.ix = res.self.ix

\* isel was called with an index on an array with a layered mesh and an
\* elevation
IselOnLayered ==
    /\ res.op = "isel"
    /\ Len(res.args.kwargs) = 0
    /\ res.args.idx.k \in {"int", "list"}
    /\ IsLayered(res.self.geometry)
    /\ res.self.zn.some

\* the call failed where the elevation is indexed
FailedOnZn ==
    /\ res.out.status = "raise"
    /\ res.out.msg \in {"too many indices for array", "invalid index to scalar variable"}

\* C24: through any sequence of isel calls on the time axis and on the
\* element axis of a layered-mesh array with elevation, every returned
\* array whose geometry still is a layered mesh has an elevation whose last
\* axis has as many entries as the geometry has nodes, and no call fails
\* because of the rank of the elevation.
C24_ElevationFollowsGeometry ==
    IselOnLayered =>
        /\ ~FailedOnZn
        /\ (res.out.status = "ok" /\ IsLayered(res.out.arr.geometry)) =>
              /\ res.out.arr.zn.some
              /\ Len(res.out.arr.zn.ix) > 0
              /\ Len(res.out.arr.zn.ix[Len(res.out.arr.zn.ix)]) = n_nodes(res.out.arr.geometry)

\* sel was called on an array that has both axes of its Grid2D, with
\* criteria that find_index resolved to the pair (ii, jj), neither of them
\* empty, and without a time criterion
SelPairCall ==
    /\ res.op = "sel"
    /\ res.self.dims \in {<<"time", "y", "x">>, <<"y", "x">>}
    /\ res.args.found.k = "pair"
    /\ res.args.time.k = "none"
    /\ \A idx \in {res.args.found.ii, res.args.found.jj} : idx.k = "none" \/ Len(idx.v) > 0

\* idx selected on the axis of the given name; nothing selected for None
IselByName(cur, idx, name) ==
    IF idx.k = "none" \/ cur.status = "raise" THEN cur
    ELSE isel_one(cur.arr, idx, AxName(name), <<>>)

\* jj on the first spatial axis, then ii on the axis that was the second
PairByName(self, found) ==
    IselByName(IselByName(ReturnsSelf(self), found.jj, "y"), found.ii, "x")

\* C25: sel with a criterion that resolves to the pair (ii, jj) returns
\* what selecting jj on the first spatial axis and ii on the originally
\* second spatial axis returns, for jj and ii absent, one index or several
\* indices, with and without a time axis.
C25_SelPairIsTwoSelections ==
    SelPairCall => res.out = PairByName(res.self, res.args.found)

C25_Witness ==
    /\ SelPairCall
    /\ res.self.dims = <<"time", "y", "x">>
    /\ res.args.found.jj = IdxList(<<0>>)
    /\ res.args.found.ii = IdxList(<<0, 1>>)
    /\ res.out.status = "ok"
    /\ res.out.arr.dims = <<"time", "x">>
    /\ res.out.arr.ix[2] = <<0, 1>>

\* __getitem__ was called with a key that is no mask
KeyCall == res.op = "getitem" /\ ~is_boolean_mask(res.args.key)

KeyLen == Len(res.args.key.c)

\* the key is a tuple of integers, longer than the rank, strictly increasing
LongIncreasing ==
    /\ res.args.key.kind = "tuple"
    /\ \A j \in 1..KeyLen : res.args.key.c[j].k = "int"
    /\ KeyLen > Len(res.self.ix)
    /\ \A j \in 1..(KeyLen - 1) : res.args.key.c[j].v[1] < res.args.key.c[j + 1].v[1]

\* the key is a tuple with a time label after its first component and the
\* array has a time axis
LabelsOnTime ==
    /\ res.args.key.kind = "tuple"
    /\ \E j \in 2..KeyLen : res.args.key.c[j].k = "label"
    /\ Len(res.self.dims) > 0
    /\ res.self.dims[1] = "time"

\* the call returned what the components as one list, given alone, return
AsOneList == res.out = getitem(res.self, Key("one", <<ListOfKey(res.args.key.c)>>))

\* every component is a full slice, an integer or a list that is not empty
Selecting(c) ==
    \A j \in 1..Len(c) : c[j].k = "all" \/ c[j].k = "int" \/ (c[j].k = "list" /\ Len(c[j].v) > 0)

\* the components applied one after the other to the axes named dims[j]
RECURSIVE ByComponents(_, _, _, _)
ByComponents(cur, dims, c, j) ==
    IF j > Len(c) THEN cur
    ELSE Bind(IF c[j].k = "all" THEN cur ELSE IselByName(cur, c[j], dims[j]),
              LAMBDA nxt : ByComponents(nxt, dims, c, j + 1))

ByAxis ==
    (res.args.key.kind = "tuple" /\ KeyLen <= Len(res.self.ix) /\ Selecting(res.args.key.c)) =>
        res.out = ByComponents(ReturnsSelf(res.self), res.self.dims, res.args.key.c, 1)

TooManyComponents ==
    /\ res.out.status = "raise"
    /\ res.out.exc = "IndexError"

\* C26 as stated: a tuple of integers longer than the rank and strictly
\* increasing is one index list for the first axis; any other key with
\* more components than the array has dims raises IndexError; a tuple of
\* at most rank components is applied component by component in dims
\* order, a full slice leaving its axis untouched.
C26_KeyDisambiguation ==
    KeyCall =>
        /\ LongIncreasing => AsOneList
        /\ (~LongIncreasing /\ KeyLen > Len(res.self.dims)) => TooManyComponents
        /\ ByAxis

\* C26, amended: as stated, except that a tuple with a time label after
\* its first component, on an array with a time axis, is one list of time
\* labels for the time axis whatever its length, and raises no IndexError
\* for its number of components.
C26_KeyDisambiguationWithLabels ==
    KeyCall =>
        /\ LongIncreasing => AsOneList
        /\ LabelsOnTime => AsOneList
        /\ (~LongIncreasing /\ ~LabelsOnTime /\ KeyLen > Len(res.self.dims)) =>
              TooManyComponents
        /\ ByAxis

C26_Witness ==
    /\ KeyCall
    /\ LabelsOnTime
    /\ KeyLen > Len(res.self.dims)
    /\ res.out.status = "ok"
    /\ Len(res.out.arr.time) = 2

\* the positions of the time steps of the receiver that are not all NaN
Surviving ==
    SortedSeq({p \in 0..(Len(res.self.ix[1]) - 1) : p \notin res.args.all_nan})

\* C28: dropna on an array with a time axis returns an array that still
\* has "time" as dims[0] and holds exactly the time steps at which not all
\* values are NaN, in their original order, however many survive; on an
\* array without a time axis it raises ValueError.
C28_DropnaKeepsTimeAxis ==
    res.op = "dropna" =>
        IF Len(res.self.dims) > 0 /\ res.self.dims[1] = "time"
        THEN /\ res.out.status = "ok"
             /\ Len(res.out.arr.dims) > 0
             /\ res.out.arr.dims[1] = "time"
             /\ res.out.arr.time = Pick(res.self.time, Surviving)
             /\ res.out.arr.ix = TakeList(res.self.ix, 0, Surviving)
        ELSE res.out.status = "raise" /\ res.out.exc = "ValueError"

EmptyList == IdxList(<<>>)

\* da[key] with a tuple whose first selecting component is an empty list
\* on an axis that is not time, and with a selecting component after it
GetItemEmptyFirst ==
    /\ KeyCall
    /\ res.args.key.kind = "tuple"
    /\ KeyLen <= Len(res.self.dims)
    /\ Selecting([j \in 1..KeyLen |-> IF res.args.key.c[j] = EmptyList
                                      THEN KeyAll ELSE res.args.key.c[j]])
    /\ \E j \in 1..(KeyLen - 1) :
          /\ res.args.key.c[j] = EmptyList
          /\ res.self.dims[j] # "time"
          /\ \A i \in 1..(j - 1) : res.args.key.c[i].k = "all"
          /\ \E k \in (j + 1)..KeyLen : res.args.key.c[k].k # "all"

\* isel(x=[], y=b) on an array with a Grid2D geometry and both its axes
IselXYEmptyFirst ==
    /\ res.op = "isel"
    /\ res.self.geometry.kind = "Grid2D"
    /\ InSeq("x", res.self.dims) /\ InSeq("y", res.self.dims)
    /\ res.args.idx.k = "none"
    /\ Len(res.args.kwargs) = 2
    /\ res.args.kwargs[1] = Kw("x", EmptyList)
    /\ res.args.kwargs[2].name = "y"

\* sel with a pair whose jj is empty and whose ii is given, or with an
\* empty spatial index and a time criterion
SelEmptyFirst ==
    /\ res.op = "sel"
    /\ res.self.dims \in {<<"time", "y", "x">>, <<"y", "x">>}
    /\ res.args.found.k = "pair"
    /\ \/ res.args.found.jj = EmptyList /\ res.args.found.ii.k # "none"
       \/ /\ res.args.time.k # "none"
          /\ EmptyList \in {res.args.found.jj, res.args.found.ii}

\* C29: in a selection made of several steps (__getitem__ with keys on
\* more than one axis, isel(x=..., y=...) on a Grid2D, sel with a pair of
\* spatial indices or with a spatial and a time criterion), an earlier step
\* that resolves to an empty index set on an axis that is not time makes
\* the whole selection return None, as a single isel does, and no later
\* step fails.
C29_EmptyStepReturnsNone ==
    (GetItemEmptyFirst \/ IselXYEmptyFirst \/ SelEmptyFirst) => res.out.status = "none"

\* other differs from self in one of the things _is_compatible is said to
\* compare
Differs(self, other) ==
    \/ other = NotADataArray
    \/ Shape(self.ix) # Shape(other.ix)
    \/ Len(self.time) # Len(other.time)
    \/ self.time[1] # other.time[1]
    \/ self.geometry.kind # other.geometry.kind
    \/ self.geometry # other.geometry
    \/ self.zn # other.zn
    \/ self.dims # other.dims

\* C30: _is_compatible(other) returns True only if other is a DataArray
\* of the same shape, number of time steps, start time, geometry type,
\* geometry content, elevation and dims as self; when one of them differs
\* it returns False, or raises ValueError when raise_error is true, in
\* particular for geometries of the same type that are not equal.
C30_IsCompatibleComparesAll ==
    (res.op = "is_compatible" /\ Differs(res.self, res.args.other)) =>
        \/ res.out.status = "value" /\ res.out.data = FALSE
        \/ res.args.raise_error /\ res.out.status = "raise" /\ res.out.exc = "ValueError"

====
